---- MODULE Spec2Model ----
(***************************************************************************)
(* State-machine model of the notebook deployment backend (FastAPI +       *)
(* SQLAlchemy).  Each subsystem has its own variables, its own initial     *)
(* predicate and its own specification; a subsystem's actions leave the    *)
(* other subsystems' variables unchanged.                                  *)
(*                                                                         *)
(*   SpecDeploy   deployment rows, the process_deployment background job   *)
(*                and the deployment endpoints that race with it           *)
(*   SpecModels   model-version rows, model blobs and the latest pointer   *)
(*   SpecRate     the in-memory sliding-window rate limiter                *)
(*   SpecWebhook  the GitHub webhook receiver                              *)
(*   SpecNotebook notebook parse / analyze / one-click lifecycle           *)
(*   SpecAdmin    roles, user administration and the admin guards          *)
(***************************************************************************)
EXTENDS Integers, Sequences, FiniteSets, TLC

VARIABLES
    users,        \* users table: id -> [is_active, is_superuser]
    nbOwner,      \* notebooks table: id -> owning user id, or NoUser when no row
    nbStatus,     \* notebooks table: id -> status column
    resp,         \* the last HTTP response a request handler produced
    deployments,  \* deployments table: id -> row, or NoRow
    job,          \* process_deployment background job per deployment id
    cloudRun,     \* names of the services the container-hosting platform holds
    metricRows,   \* ids of deployments that own a DeploymentMetric row
    modelVersions,\* model_versions table: set of [notebook_id, version, is_active]
    modelBlobs,   \* stored model blobs: set of <<notebook id, version>>
    latestPtr,    \* latest/version.txt per notebook: a version, or 0 when absent
    givenVersion, \* per notebook: the highest version number an upload was given
    requests,     \* RateLimitMiddleware.requests: client id -> list of timestamps
    now,          \* wall clock read by time.time(), in seconds
    ghSecret,     \* settings.github_webhook_secret, or NoSecret
    ghHandled,    \* the webhook deliveries that reached push / ping / ignore handling
    nbParse,      \* per notebook: the parse artifacts and columns parse writes
    analyses,     \* analyses table: notebook id -> number of Analysis rows
    aiCalls,      \* per notebook: calls made to the AI analysis service
    userRoles,    \* user_roles association: user id -> set of role names
    roles,        \* roles table: the role names that exist
    orgs,         \* organizations table: the organization names that exist
    callArg,      \* the argument of a service function under check
    callResult,   \* what the function returned, or NoResult before the call
    builds,       \* builds table: id -> row, or NoRow
    buildJob,     \* execute_build / execute_pipeline background job per build id
    provider,     \* the build service: build id -> status of the submitted build
    stream,       \* one stream_logs websocket session: loop position and frames sent
    streamEnv,    \* what the session polls: log entries, build status, deployment status
    apiKeys       \* api_keys table: key -> [user_id, is_active, last_used_at]

sharedVars == <<users, nbOwner, nbStatus, resp>>
deployVars == <<deployments, job, cloudRun, metricRows>>
modelVars == <<modelVersions, modelBlobs, latestPtr, givenVersion>>
rateVars == <<requests, now>>
hookVars == <<ghSecret, ghHandled>>
noteVars == <<nbParse, analyses, aiCalls>>
adminVars == <<userRoles, roles, orgs>>
callVars == <<callArg, callResult>>
buildVars == <<builds, buildJob, provider>>
streamVars == <<stream, streamEnv>>
keyVars == <<apiKeys>>
extVars == <<buildVars, streamVars, keyVars>>
vars == <<sharedVars, deployVars, modelVars, rateVars, hookVars, noteVars, adminVars, callVars, extVars>>

notDeploy == <<modelVars, rateVars, hookVars, noteVars, adminVars, callVars, extVars>>
notModels == <<deployVars, rateVars, hookVars, noteVars, adminVars, callVars, extVars>>
notRate == <<sharedVars, deployVars, modelVars, hookVars, noteVars, adminVars, callVars, extVars>>
notHook == <<deployVars, modelVars, rateVars, noteVars, adminVars, callVars, extVars>>
notNote == <<modelVars, rateVars, hookVars, adminVars, callVars, extVars>>
notAdmin == <<deployVars, modelVars, rateVars, hookVars, noteVars, callVars, extVars>>

----------------------------------------------------------------------------
(* Bounds of the model *)

MaxDeployments == 1
\* MaxVersion: uploads stop once a notebook's highest version is this
\* MaxTime: the clock stops here
\* MaxParses, MaxAiCalls: completed parses and AI calls counted per notebook
MaxVersion == 2
MaxTime == 120
MaxParses == 2
MaxAiCalls == 2
MaxBuilds == 1

\* Two accounts: enough for an owner and a stranger, an admin and a non-admin
Users == {1, 2}
\* Two notebooks: one of the caller's own and one of somebody else's
NotebookIds == {1, 2}
DeployIds == 1..MaxDeployments
BuildIds == 1..MaxBuilds
ServiceNames == {"svc-a", "svc-b"}

Versions == 1..MaxVersion
ClientIds == {"198.51.100.7"}
RoleNames == {"admin", "viewer"}
OrgNames == {"org-a"}

NoUser == 0
NoSecret == "unset"
NoRow == [status |-> "absent"]
NoResp == [op |-> "none", code |-> 0]
NoResult == <<"no result">>
Returned(value) == <<"returned", value>>

(* Notebook.status values written by the request handlers and by the     *)
(* pipeline job                                                           *)
NotebookStatuses ==
    {"uploading", "uploaded", "parsing", "parsed", "parse_failed", "analyzed",
     "building", "deploying", "deployed", "failed"}

(* google.cloud.devtools.cloudbuild_v1 Build.Status names, as returned by *)
(* CloudBuildService.get_build_status                                      *)
BuildStatuses ==
    {"QUEUED", "WORKING", "SUCCESS", "FAILURE", "INTERNAL_ERROR",
     "TIMEOUT", "CANCELLED"}

max_wait == 600
poll_sleep == 10

\* requests_per_minute: the default of RateLimitMiddleware.__init__
\* window_seconds: the 60 of `cutoff_time = current_time - 60`
requests_per_minute == 100
window_seconds == 60

----------------------------------------------------------------------------
(* Request guards shared by the endpoints *)

(* get_current_user / get_current_active_user: an authenticated caller    *)
(* whose row is inactive is answered 400 before the handler body runs     *)
ActiveCaller(u) == users[u].is_active

Respond(op, code) == resp' = [op |-> op, code |-> code]

(* The state of each subsystem before it has handled anything *)
IdleDeploy ==
    /\ deployments = [d \in DeployIds |-> NoRow]
    /\ job = [d \in DeployIds |-> [pc |-> "idle", waited |-> 0, err |-> "none"]]
    /\ cloudRun = {}
    /\ metricRows = {}

IdleModels ==
    /\ modelVersions = {}
    /\ modelBlobs = {}
    /\ latestPtr = [n \in NotebookIds |-> 0]
    /\ givenVersion = [n \in NotebookIds |-> 0]

IdleRate ==
    /\ requests = [c \in ClientIds |-> << >>]
    /\ now = 0

IdleHook ==
    /\ ghSecret = NoSecret
    /\ ghHandled = {}

(* The parse columns of a notebook row that was never parsed (db/models.py:  *)
(* main_py_path, dependencies, code_cells_count and syntax_valid nullable)    *)
Unparsed ==
    [main_py |-> <<"absent">>, dependencies |-> {}, code_cells_count |-> 0,
     syntax_valid |-> FALSE]

IdleNote ==
    /\ nbParse = [n \in NotebookIds |-> [count |-> 0, stored |-> Unparsed]]
    /\ analyses = [n \in NotebookIds |-> 0]
    /\ aiCalls = [n \in NotebookIds |-> 0]

IdleAdmin ==
    /\ userRoles = [u \in Users |-> {}]
    /\ roles = {}
    /\ orgs = {}

IdleCall ==
    /\ callArg = NoResult
    /\ callResult = NoResult

IdleBuild ==
    /\ builds = [b \in BuildIds |-> NoRow]
    /\ buildJob = [b \in BuildIds |->
                      [kind |-> "none", pc |-> "idle", err |-> "none", deployment |-> 0]]
    /\ provider = [b \in BuildIds |-> "none"]

NoStream ==
    [pc |-> "idle", connected |-> FALSE, disconnected |-> FALSE, iteration |-> 0,
     last_log_count |-> 0, logs |-> <<>>, seen |-> 0, complete |-> 0, timeout |-> 0,
     build_status |-> "none"]

IdleStream ==
    /\ stream = NoStream
    /\ streamEnv = [logged |-> 0, steps |-> 0, build_status |-> "WORKING",
                    deployment_status |-> "deploying"]

\* The API key strings a request can carry
KeyStrings == {"key-a", "key-b"}

IdleKeys == apiKeys = [k \in KeyStrings |-> NoRow]

IdleExt == IdleBuild /\ IdleStream /\ IdleKeys

(* Notebook n owned by user n, the first notebook analyzed and the         *)
(* others parsed; the first account may have been deactivated             *)
InitAccounts ==
    /\ \E a \in BOOLEAN :
          users = [u \in Users |-> [is_active |-> (u # 1) \/ a, is_superuser |-> FALSE]]
    /\ nbOwner = [n \in NotebookIds |-> n]
    /\ nbStatus = [n \in NotebookIds |-> IF n = 1 THEN "analyzed" ELSE "parsed"]
    /\ resp = NoResp

----------------------------------------------------------------------------
(* Deployment endpoints *)

NewDeployment(n, u, name) ==
    [notebook_id |-> n, user_id |-> u, name |-> name, status |-> "pending",
     build_id |-> FALSE, build_duration |-> FALSE, service_url |-> FALSE,
     error_message |-> "none"]

FreeDeployIds == {d \in DeployIds : deployments[d] = NoRow /\ job[d].pc = "idle"}

(* A laxer status gate, which lets a notebook through before analysis *)
ParsedOrAnalyzed == {"parsed", "analyzed"}

(* The statuses create_one_click_deployment accepts *)
DeployableStatuses == {"analyzed"}

(* POST /deployments/one-click *)
CreateOneClick(u, n, name) ==
    /\ FreeDeployIds # {}
    /\ UNCHANGED <<users, nbOwner, nbStatus, cloudRun, metricRows>>
    /\ UNCHANGED notDeploy
    /\ IF ~ActiveCaller(u)
       THEN /\ Respond("one_click", 400)
            /\ UNCHANGED <<deployments, job>>
       ELSE IF nbOwner[n] # u
       THEN /\ Respond("one_click", 404)
            /\ UNCHANGED <<deployments, job>>
       ELSE IF nbStatus[n] \notin DeployableStatuses
       THEN /\ Respond("one_click", 400)
            /\ UNCHANGED <<deployments, job>>
       ELSE LET d == CHOOSE x \in FreeDeployIds : \A y \in FreeDeployIds : x <= y
            IN  /\ deployments' = [deployments EXCEPT ![d] = NewDeployment(n, u, name)]
                /\ job' = [job EXCEPT ![d] = [pc |-> "scheduled", waited |-> 0,
                                              err |-> "none"]]
                /\ Respond("one_click", 201)

OwnedDeployment(u, d) ==
    deployments[d] # NoRow /\ deployments[d].user_id = u

(* DELETE /deployments/{deployment_id} *)
DeleteDeployment(u, d) ==
    /\ UNCHANGED <<users, nbOwner, nbStatus, job, metricRows>>
    /\ UNCHANGED notDeploy
    /\ IF ~ActiveCaller(u)
       THEN /\ Respond("delete_deployment", 400)
            /\ UNCHANGED <<deployments, cloudRun>>
       ELSE IF ~OwnedDeployment(u, d)
       THEN /\ Respond("delete_deployment", 404)
            /\ UNCHANGED <<deployments, cloudRun>>
       ELSE /\ cloudRun' = IF deployments[d].service_url
                           THEN cloudRun \ {deployments[d].name}
                           ELSE cloudRun
            /\ deployments' = [deployments EXCEPT ![d] = NoRow]
            /\ Respond("delete_deployment", 204)

(* GET /deployments/{deployment_id} *)
GetDeployment(u, d) ==
    /\ UNCHANGED <<users, nbOwner, nbStatus, deployVars>>
    /\ UNCHANGED notDeploy
    /\ IF ~ActiveCaller(u) THEN Respond("get_deployment", 400)
       ELSE IF ~OwnedDeployment(u, d) THEN Respond("get_deployment", 404)
       ELSE Respond("get_deployment", 200)

(* The row get_deployment_logs_aggregated selects: the deployment joined   *)
(* to its notebook, filtered by the notebook's owner                       *)
DeploymentOfCallersNotebook(u, d) ==
    deployments[d] # NoRow /\ nbOwner[deployments[d].notebook_id] = u

(* GET /metrics/logs/deployments/{deployment_id}: when the row is not      *)
(* found the handler returns an error body, which is sent with status 200  *)
GetDeploymentLogsAggregated(u, d) ==
    /\ UNCHANGED <<users, nbOwner, nbStatus, deployVars>>
    /\ UNCHANGED notDeploy
    /\ IF ~ActiveCaller(u) THEN Respond("deployment_logs", 400)
       ELSE IF ~DeploymentOfCallersNotebook(u, d) THEN Respond("deployment_logs", 200)
       ELSE Respond("deployment_logs", 200)

----------------------------------------------------------------------------
(* process_deployment: the background job of one Deployment.  Every       *)
(* db.commit() ends one step, so other requests interleave between the    *)
(* steps.  Every external call (database, object storage, build service,  *)
(* hosting platform) either returns or raises.                            *)

RowPresent(d) == deployments[d] # NoRow

SetJob(d, pc, waited, err) ==
    job' = [job EXCEPT ![d] = [pc |-> pc, waited |-> waited, err |-> err]]

(* An exception reaches the `except Exception` clause of the job *)
Raise(d, err) == SetJob(d, "handler", 0, err)

(* A build status that ends the poll loop with a failure *)
BuildFailureStatuses == {"FAILURE", "CANCELLED", "TIMEOUT"}

(* LoggingService() and MonitoringService() build their clients from the  *)
(* configured or the default credentials; either constructor can raise    *)
ObservabilityFaults == {"logging client error", "metrics client error"}

(* lines 40-57: construct the logging and metrics clients, load the row,  *)
(* log the start, commit status building.  The constructors run before    *)
(* the try block: when one raises, the exception leaves the job.  The log *)
(* call of line 54 catches its own exceptions (logging_service.py 31-36)  *)
JobStart(d) ==
    /\ job[d].pc = "scheduled"
    /\ UNCHANGED <<sharedVars, cloudRun, metricRows>>
    /\ UNCHANGED notDeploy
    /\ \/ /\ \E e \in ObservabilityFaults : SetJob(d, "crashed", 0, e)
          /\ UNCHANGED deployments
       \/ /\ ~RowPresent(d)                    \* `if not deployment: return`
          /\ SetJob(d, "done", 0, "none")
          /\ UNCHANGED deployments
       \/ /\ RowPresent(d)
          /\ deployments' = [deployments EXCEPT ![d].status = "building"]
          /\ SetJob(d, "building", 0, "none")
       \/ /\ Raise(d, "query error")           \* the query of line 45 raises
          /\ UNCHANGED deployments
       \/ /\ RowPresent(d)                     \* a later query or the commit raises
          /\ Raise(d, "db error")
          /\ UNCHANGED deployments

(* lines 59-108: materialise the source, submit the build, commit status  *)
(* deploying together with the build id                                   *)
JobSubmit(d) ==
    /\ job[d].pc = "building"
    /\ UNCHANGED <<sharedVars, cloudRun, metricRows>>
    /\ UNCHANGED notDeploy
    /\ \/ /\ RowPresent(d)
          /\ deployments' = [deployments EXCEPT ![d].status = "deploying",
                                                ![d].build_id = TRUE]
          /\ SetJob(d, "polling", 0, "none")
       \/ /\ \E e \in {"storage error", "build submit error", "db error"} :
                Raise(d, e)
          /\ UNCHANGED deployments

(* The text of line 120 *)
BuildFailedMessage(build_status) == "Build failed with status: " \o build_status

(* A loop without a wait bound *)
WhileTrue(waited) == TRUE

(* line 112: the condition of the poll loop *)
WhileWaiting(waited) == waited < max_wait

(* lines 130-131: sleep ten seconds and count them *)
NextWaited(waited) == waited + poll_sleep

(* lines 113-131: what one iteration of the poll loop does when            *)
(* get_build_status returns build_status                                   *)
JobPollStatus(d, build_status) ==
    /\ job[d].pc = "polling"
    /\ WhileWaiting(job[d].waited)
    /\ IF build_status = "SUCCESS"
       THEN /\ SetJob(d, "deploy", 0, "none")
            /\ UNCHANGED deployments
       ELSE IF build_status \in BuildFailureStatuses
       THEN /\ RowPresent(d)
            /\ SetJob(d, "done", 0, "none")
            /\ deployments' =
                   [deployments EXCEPT ![d].status = "failed",
                                       ![d].build_duration = TRUE,
                                       ![d].error_message =
                                           BuildFailedMessage(build_status)]
       ELSE /\ SetJob(d, "polling", NextWaited(job[d].waited), "none")
            /\ UNCHANGED deployments
    /\ UNCHANGED <<sharedVars, cloudRun, metricRows>>
    /\ UNCHANGED notDeploy

(* lines 112-131: one iteration of the poll loop *)
JobPoll(d) ==
    \/ \E build_status \in BuildStatuses : JobPollStatus(d, build_status)
    \/ /\ job[d].pc = "polling"
       /\ WhileWaiting(job[d].waited)
       /\ Raise(d, "build status error")       \* get_build_status or commit raises
       /\ UNCHANGED deployments
       /\ UNCHANGED <<sharedVars, cloudRun, metricRows>>
       /\ UNCHANGED notDeploy

(* lines 133-141: the wait bound is exhausted *)
JobPollTimeout(d) ==
    /\ job[d].pc = "polling"
    /\ job[d].waited >= max_wait
    /\ UNCHANGED <<sharedVars, cloudRun, metricRows>>
    /\ UNCHANGED notDeploy
    /\ \/ /\ RowPresent(d)
          /\ deployments' = [deployments EXCEPT ![d].status = "failed",
                                                ![d].error_message = "Build timeout"]
          /\ SetJob(d, "done", 0, "none")
       \/ /\ Raise(d, "db error")
          /\ UNCHANGED deployments

(* cloud_run.deploy_service: the hosting platform holds the named service *)
(* once the call has returned                                             *)
DeployService(name) == cloudRun' = cloudRun \cup {name}

(* lines 143-175: deploy the image, read the service URL, commit status   *)
(* deployed together with the URL                                         *)
JobDeploy(d) ==
    /\ job[d].pc = "deploy"
    /\ UNCHANGED <<sharedVars, metricRows>>
    /\ UNCHANGED notDeploy
    /\ \/ /\ Raise(d, "deploy error")           \* deploy_service raises
          /\ UNCHANGED <<deployments, cloudRun>>
       \/ /\ RowPresent(d)                      \* get_service_url or the commit raises
          /\ DeployService(deployments[d].name)
          /\ Raise(d, "service url error")
          /\ UNCHANGED deployments
       \/ /\ RowPresent(d)
          /\ DeployService(deployments[d].name)
          /\ deployments' = [deployments EXCEPT ![d].status = "deployed",
                                                ![d].build_duration = TRUE,
                                                ![d].service_url = TRUE]
          /\ SetJob(d, "deployed", 0, "none")

(* lines 177-194: log and meter the success, insert the DeploymentMetric  *)
(* row and commit it; still inside the try block                          *)
JobRecordMetric(d) ==
    /\ job[d].pc = "deployed"
    /\ UNCHANGED <<sharedVars, cloudRun, deployments>>
    /\ UNCHANGED notDeploy
    /\ \/ /\ RowPresent(d)
          /\ metricRows' = metricRows \cup {d}
          /\ SetJob(d, "done", 0, "none")
       \/ /\ Raise(d, "db error")
          /\ UNCHANGED metricRows

(* The faults raised after line 144 has set build_duration on the row     *)
(* object: the commit of the except clause writes that column too         *)
DeployStepFaults == {"deploy error", "service url error"}

(* What the except clause writes on the row (lines 197-199) *)
HandlerWrite(row, err) ==
    [row EXCEPT !.status = "failed", !.error_message = err,
                !.build_duration = @ \/ err \in DeployStepFaults]

(* lines 196-204: the except clause.  When the query of line 45 raised,   *)
(* `deployment` is unbound and line 197 raises; the commit of line 199    *)
(* can raise too; in both cases the exception leaves the job              *)
JobHandler(d) ==
    /\ job[d].pc = "handler"
    /\ UNCHANGED <<sharedVars, cloudRun, metricRows>>
    /\ UNCHANGED notDeploy
    /\ \/ /\ RowPresent(d)
          /\ job[d].err # "query error"
          /\ deployments' = [deployments EXCEPT ![d] = HandlerWrite(@, job[d].err)]
          /\ SetJob(d, "done", 0, job[d].err)
       \/ /\ SetJob(d, "crashed", 0, job[d].err)
          /\ UNCHANGED deployments

----------------------------------------------------------------------------
(* Specification of the deployment subsystem *)

InitDeploy ==
    /\ InitAccounts
    /\ IdleDeploy /\ IdleModels /\ IdleRate /\ IdleHook /\ IdleNote /\ IdleAdmin /\ IdleCall /\ IdleExt

NextDeploy ==
    \/ \E u \in Users, n \in NotebookIds, name \in ServiceNames : CreateOneClick(u, n, name)
    \/ \E u \in Users, d \in DeployIds : DeleteDeployment(u, d)
    \/ \E u \in Users, d \in DeployIds : GetDeployment(u, d)
    \/ \E u \in Users, d \in DeployIds : GetDeploymentLogsAggregated(u, d)
    \/ \E d \in DeployIds : JobStart(d)
    \/ \E d \in DeployIds : JobSubmit(d)
    \/ \E d \in DeployIds : JobPoll(d)
    \/ \E d \in DeployIds : JobPollTimeout(d)
    \/ \E d \in DeployIds : JobDeploy(d)
    \/ \E d \in DeployIds : JobRecordMetric(d)
    \/ \E d \in DeployIds : JobHandler(d)

SpecDeploy == InitDeploy /\ [][NextDeploy]_vars

(* One step of the background job of deployment d *)
JobStep(d) ==
    \/ JobStart(d) \/ JobSubmit(d) \/ JobPoll(d) \/ JobPollTimeout(d)
    \/ JobDeploy(d) \/ JobRecordMetric(d) \/ JobHandler(d)

(* BackgroundTasks runs process_deployment to its end once the response is *)
(* sent: a job that can take a step takes it                               *)
(* The owners' requests that create and delete deployments, and the jobs; *)
(* the service name plays no part in how a job ends, so one name is used   *)
NextDeployLive ==
    \/ \E n \in NotebookIds :
          CreateOneClick(nbOwner[n], n, CHOOSE name \in ServiceNames : TRUE)
    \/ \E d \in DeployIds : RowPresent(d) /\ DeleteDeployment(deployments[d].user_id, d)
    \/ \E d \in DeployIds : JobStep(d)

SpecDeployLive ==
    InitDeploy /\ [][NextDeployLive]_vars /\ \A d \in DeployIds : WF_vars(JobStep(d))

----------------------------------------------------------------------------
(* Properties of the deployment subsystem *)

TerminalStatuses == {"deployed", "failed"}

StatusRank(st) ==
    CASE st = "pending" -> 0
      [] st = "building" -> 1
      [] st = "deploying" -> 2
      [] st = "deployed" -> 3
      [] OTHER -> 4

(* One committed change of a Deployment status that the lifecycle allows *)
ForwardMove(a, b) ==
    \/ a = b
    \/ /\ a \notin TerminalStatuses
       /\ b = "failed"
    \/ /\ a \notin TerminalStatuses
       /\ b # "failed"
       /\ StatusRank(b) > StatusRank(a)

(* C1: for every Deployment row, each committed status change moves       *)
(* forward along pending -> building -> deploying -> deployed or jumps to  *)
(* failed from a non-terminal status; a deployed or failed row never       *)
(* changes status again.                                                   *)
C1_StatusOnlyMovesForward ==
    [][\A d \in DeployIds :
          (deployments[d] # NoRow /\ deployments'[d] # NoRow)
              => ForwardMove(deployments[d].status, deployments'[d].status)]_vars

(* C8: a one-click request creates exactly one pending row and schedules   *)
(* its job when the caller owns the notebook and the notebook is analyzed; *)
(* in every other case it answers 404 or 400, creates no row and schedules *)
(* no job.                                                                 *)
C8_OneClickOnlyOwnedAnalyzed ==
    [][resp'.op = "one_click" =>
       \A u \in Users, n \in NotebookIds, name \in ServiceNames :
          CreateOneClick(u, n, name) =>
              IF users[u].is_active /\ nbOwner[n] = u /\ nbStatus[n] = "analyzed"
              THEN /\ resp'.code = 201
                   /\ \E d \in DeployIds :
                         /\ deployments[d] = NoRow
                         /\ deployments'[d].status = "pending"
                         /\ deployments'[d].notebook_id = n
                         /\ deployments'[d].user_id = u
                         /\ job[d].pc = "idle" /\ job'[d].pc = "scheduled"
                         /\ \A e \in DeployIds \ {d} :
                               deployments'[e] = deployments[e] /\ job'[e] = job[e]
              ELSE /\ resp'.code \in {400, 404}
                   /\ deployments' = deployments
                   /\ job' = job]_vars

(* The last request was an accepted one-click request: its row is pending  *)
(* on an analyzed notebook and its job is scheduled                        *)
C8_Witness ==
    /\ \E d \in DeployIds :
          deployments[d] # NoRow /\ job[d].pc = "scheduled"
              /\ nbStatus[deployments[d].notebook_id] = "analyzed"
    /\ resp = [op |-> "one_click", code |-> 201]

(* The build statuses the build service reports for a build that ended    *)
(* without success                                                         *)
TerminalFailureStatuses == {"FAILURE", "INTERNAL_ERROR", "TIMEOUT", "CANCELLED"}

(* C17 as stated: whenever the poll loop is told a terminal non-success    *)
(* build status, the job ends there without a deploy call, and the row is  *)
(* failed with a message naming that status and has its build duration.    *)
C17_TerminalFailureStopsJob ==
    [][\A d \in DeployIds : \A build_status \in TerminalFailureStatuses :
          (RowPresent(d) /\ JobPollStatus(d, build_status)) =>
              /\ job'[d].pc = "done"
              /\ cloudRun' = cloudRun
              /\ deployments'[d].status = "failed"
              /\ deployments'[d].error_message = BuildFailedMessage(build_status)
              /\ deployments'[d].build_duration]_vars

(* No external call of job d has raised *)
NoFault(d) == job[d].pc \notin {"handler", "crashed"}

(* Job d has ended and its row, if it still exists, is deployed or failed *)
JobEnded(d) ==
    /\ job[d].pc = "done"
    /\ RowPresent(d) => deployments[d].status \in TerminalStatuses

(* C18: the poll loop makes at most 60 polls, ten seconds apart; a loop    *)
(* that exhausts the bound ends the row failed with the timeout message;   *)
(* a finished job never leaves its row pending, building or deploying; and *)
(* every scheduled job ends unless one of its external calls raises.       *)
C18_PollingIsBoundedAndJobEnds ==
    /\ [](\A d \in DeployIds :
             /\ job[d].waited <= 60 * poll_sleep
             /\ job[d].waited <= max_wait
             /\ job[d].pc = "done" => JobEnded(d))
    /\ [][\A d \in DeployIds :
             (JobPollTimeout(d) /\ job'[d].pc = "done") =>
                 /\ job[d].waited = 60 * poll_sleep
                 /\ deployments'[d].status = "failed"
                 /\ deployments'[d].error_message = "Build timeout"]_vars
    /\ \A d \in DeployIds :
           (job[d].pc = "scheduled") ~> (JobEnded(d) \/ ~NoFault(d))

(* A job has polled sixty times without seeing a terminal status and has   *)
(* ended its row failed with the timeout message                           *)
C18_Witness ==
    \E d \in DeployIds :
        /\ job[d].pc = "done"
        /\ RowPresent(d)
        /\ deployments[d].status = "failed"
        /\ deployments[d].error_message = "Build timeout"

(* C25: a failure of a logging or metrics call, the construction of the   *)
(* logging or metrics client included, never stops the job: no job is     *)
(* left by such a failure, so no row stays pending, building or deploying *)
(* because of one                                                         *)
C25_ObservabilityFailureNeverStopsJob ==
    \A d \in DeployIds :
        job[d].err \in ObservabilityFaults =>
            /\ job[d].pc # "crashed"
            /\ RowPresent(d) => deployments[d].status \in TerminalStatuses

(* C19 as stated: the except clause of the job always ends the job with    *)
(* the row failed and the fault's message on it; no fault leaves the job.  *)
C19_FaultEndsRowFailed ==
    [][\A d \in DeployIds :
          (job[d].pc = "handler" /\ JobHandler(d)) =>
              /\ job'[d].pc = "done"
              /\ deployments'[d].status = "failed"
              /\ deployments'[d].error_message = job[d].err]_vars

(* C20 as stated: every service the hosting platform holds is recorded by  *)
(* a Deployment row that stores its URL, so that delete tears it down.     *)
C20_HostedServiceIsRecorded ==
    \A name \in cloudRun :
        \E d \in DeployIds :
            /\ RowPresent(d)
            /\ deployments[d].name = name
            /\ deployments[d].service_url

(* C9 as stated, on the deployment endpoints: a caller who does not own    *)
(* the addressed deployment gets a 404 and nothing changes.                *)
C9_ForeignIdIs404 ==
    [][\A u \in Users, d \in DeployIds :
          ((GetDeployment(u, d) \/ DeleteDeployment(u, d)
                \/ GetDeploymentLogsAggregated(u, d))
             /\ users[u].is_active
             /\ ~(deployments[d] # NoRow /\ deployments[d].user_id = u))
          => (resp'.code = 404 /\ deployments' = deployments)]_vars

----------------------------------------------------------------------------
(* Model versions (api/v1/model_versions.py)                               *)

RowsOf(rows, n) == {r \in rows : r.notebook_id = n}

HasVersion(rows, n, v) == \E r \in rows : r.notebook_id = n /\ r.version = v

VersionRow(rows, n, v) == CHOOSE r \in rows : r.notebook_id = n /\ r.version = v

Max(S) == CHOOSE x \in S : \A y \in S : y <= x

(* lines 61-65: one more than the highest version of the notebook, or 1 *)
NextVersion(rows, n) ==
    IF RowsOf(rows, n) = {} THEN 1
    ELSE Max({r.version : r \in RowsOf(rows, n)}) + 1

(* An update that leaves every row as it is *)
KeepRows(rows, n) == rows

(* lines 144-146: the bulk update is_active = False over the notebook *)
DeactivateAll(rows, n) ==
    {IF r.notebook_id = n THEN [r EXCEPT !.is_active = FALSE] ELSE r : r \in rows}

(* line 148: the selected row becomes active *)
SetActive(rows, n, v) ==
    {IF r.notebook_id = n /\ r.version = v THEN [r EXCEPT !.is_active = TRUE] ELSE r :
        r \in rows}

(* upload_model_version_internal, lines 36-89.  file_ok: the extension, size *)
(* and magic-byte checks pass.  outcome: which storage call raises, if any.  *)
UploadInternal(op, u, n, file_ok, outcome) ==
    /\ UNCHANGED <<users, nbOwner, nbStatus>>
    /\ UNCHANGED notModels
    /\ IF ~ActiveCaller(u)
       THEN Respond(op, 400) /\ UNCHANGED modelVars
       ELSE IF nbOwner[n] # u
       THEN Respond(op, 404) /\ UNCHANGED modelVars
       ELSE IF ~file_ok
       THEN Respond(op, 400) /\ UNCHANGED modelVars
       ELSE LET version == NextVersion(modelVersions, n)
            IN  /\ version <= MaxVersion
                /\ IF outcome = "upload_error"
                   THEN Respond(op, 500) /\ UNCHANGED modelVars
                   ELSE /\ modelBlobs' = modelBlobs \cup {<<n, version>>}
                        /\ modelVersions' = modelVersions \cup
                               {[notebook_id |-> n, version |-> version,
                                 is_active |-> TRUE]}
                        /\ givenVersion' = [givenVersion EXCEPT
                               ![n] = IF version > @ THEN version ELSE @]
                        /\ IF outcome = "pointer_error"
                           THEN Respond(op, 500) /\ UNCHANGED latestPtr
                           ELSE /\ latestPtr' = [latestPtr EXCEPT ![n] = version]
                                /\ Respond(op, 200)

UploadOutcomes == {"ok", "upload_error", "pointer_error"}

(* POST /notebooks/{notebook_id}/models *)
UploadModelVersion(u, n, file_ok, outcome) ==
    UploadInternal("upload_model", u, n, file_ok, outcome)

(* PUT /notebooks/{notebook_id}/models/replace: the ownership check of     *)
(* lines 165-170 is the one the upload repeats                             *)
ReplaceActiveModel(u, n, file_ok, outcome) ==
    UploadInternal("replace_model", u, n, file_ok, outcome)

(* POST /notebooks/{notebook_id}/models/{version}/activate *)
ActivateModelVersion(u, n, v, outcome) ==
    /\ IF ~ActiveCaller(u)
       THEN Respond("activate_model", 400) /\ UNCHANGED <<modelVersions, latestPtr>>
       ELSE IF nbOwner[n] # u \/ ~HasVersion(modelVersions, n, v)
       THEN Respond("activate_model", 404) /\ UNCHANGED <<modelVersions, latestPtr>>
       ELSE /\ IF outcome = "pointer_error"
               THEN Respond("activate_model", 500) /\ UNCHANGED latestPtr
               ELSE /\ Respond("activate_model", 200)
                    /\ latestPtr' = [latestPtr EXCEPT ![n] = v]
            /\ modelVersions' = SetActive(DeactivateAll(modelVersions, n), n, v)
    /\ UNCHANGED <<users, nbOwner, nbStatus, modelBlobs, givenVersion>>
    /\ UNCHANGED notModels

(* A delete that refuses nothing *)
NeverRefused(row) == FALSE

(* line 197: the active version is not deleted *)
DeleteRefused(row) == row.is_active

(* DELETE /notebooks/{notebook_id}/models/{version} *)
DeleteModelVersion(u, n, v, outcome) ==
    /\ IF ~ActiveCaller(u)
       THEN Respond("delete_model", 400) /\ UNCHANGED <<modelVersions, modelBlobs>>
       ELSE IF nbOwner[n] # u \/ ~HasVersion(modelVersions, n, v)
       THEN Respond("delete_model", 404) /\ UNCHANGED <<modelVersions, modelBlobs>>
       ELSE IF DeleteRefused(VersionRow(modelVersions, n, v))
       THEN Respond("delete_model", 400) /\ UNCHANGED <<modelVersions, modelBlobs>>
       ELSE IF outcome = "delete_error"
       THEN Respond("delete_model", 500) /\ UNCHANGED <<modelVersions, modelBlobs>>
       ELSE /\ modelBlobs' = modelBlobs \ {<<n, v>>}
            /\ modelVersions' = modelVersions \ {VersionRow(modelVersions, n, v)}
            /\ Respond("delete_model", 200)
    /\ UNCHANGED <<users, nbOwner, nbStatus, latestPtr, givenVersion>>
    /\ UNCHANGED notModels

InitModels ==
    /\ InitAccounts
    /\ IdleDeploy /\ IdleModels /\ IdleRate /\ IdleHook /\ IdleNote /\ IdleAdmin /\ IdleCall /\ IdleExt

(* A file that fails validation reaches no storage call *)
OutcomesFor(file_ok) == IF file_ok THEN UploadOutcomes ELSE {"ok"}

(* A request on a notebook the caller does not own is refused before its  *)
(* other inputs are read, so one such request per caller and notebook      *)
(* stands for all of them                                                  *)
OwnerOr(u, n, first) == nbOwner[n] = u \/ first

NextModels ==
    \/ \E u \in Users, n \in NotebookIds, ok \in BOOLEAN :
          \E o \in OutcomesFor(ok) :
             OwnerOr(u, n, ~ok) /\ UploadModelVersion(u, n, ok, o)
    \/ \E u \in Users, n \in NotebookIds, ok \in BOOLEAN :
          \E o \in OutcomesFor(ok) :
             OwnerOr(u, n, ~ok) /\ ReplaceActiveModel(u, n, ok, o)
    \/ \E u \in Users, n \in NotebookIds, v \in Versions, o \in {"ok", "pointer_error"} :
          OwnerOr(u, n, v = 1 /\ o = "ok") /\ ActivateModelVersion(u, n, v, o)
    \/ \E u \in Users, n \in NotebookIds, v \in Versions, o \in {"ok", "delete_error"} :
          OwnerOr(u, n, v = 1 /\ o = "ok") /\ DeleteModelVersion(u, n, v, o)

SpecModels == InitModels /\ [][NextModels]_vars

ActiveRows(rows, n) == {r \in RowsOf(rows, n) : r.is_active}

(* C2 as stated: every notebook has at most one ModelVersion row with      *)
(* is_active = true after any sequence of completed upload, replace,       *)
(* activate and delete calls.                                              *)
C2_AtMostOneActive ==
    \A n \in NotebookIds : Cardinality(ActiveRows(modelVersions, n)) <= 1

(* C3: when the owner activates an existing version K of a notebook, then  *)
(* afterwards version K is active, every other version of that notebook is *)
(* inactive, and the rows of every other notebook are unchanged.           *)
C3_ActivateSetsExactlyK ==
    [][resp'.op = "activate_model" =>
          \A n \in NotebookIds, v \in Versions :
             (users[nbOwner[n]].is_active /\ HasVersion(modelVersions, n, v)) =>
                \A o \in {"ok", "pointer_error"} :
                   ActivateModelVersion(nbOwner[n], n, v, o) =>
                      /\ \A r \in modelVersions' :
                            r.notebook_id = n => (r.is_active <=> r.version = v)
                      /\ {<<r.notebook_id, r.version>> : r \in modelVersions'}
                            = {<<r.notebook_id, r.version>> : r \in modelVersions}
                      /\ {r \in modelVersions' : r.notebook_id # n}
                            = {r \in modelVersions : r.notebook_id # n}]_vars

(* An activate call has returned 200: its notebook has version 1 active    *)
(* and version 2, which its upload had made active, inactive, while        *)
(* another notebook keeps an active row                                    *)
C3_Witness ==
    /\ resp = [op |-> "activate_model", code |-> 200]
    /\ \E n \in NotebookIds :
          /\ [notebook_id |-> n, version |-> 1, is_active |-> TRUE] \in modelVersions
          /\ [notebook_id |-> n, version |-> 2, is_active |-> FALSE] \in modelVersions
          /\ latestPtr[n] = 1
          /\ \E m \in NotebookIds \ {n} : ActiveRows(modelVersions, m) # {}

(* The rows a step has inserted *)
InsertedRows == modelVersions' \ modelVersions

(* C13 as stated: an upload is given a version number higher than every    *)
(* number an earlier upload of the same notebook was given, whatever       *)
(* uploads, activations and deletions came before, and no two rows of a    *)
(* notebook share a version number.                                        *)
C13_VersionNumbersNeverReused ==
    [][/\ \A r \in InsertedRows :
             (resp'.op \in {"upload_model", "replace_model"})
                => r.version > givenVersion[r.notebook_id]
       /\ \A r, q \in modelVersions' :
             (r.notebook_id = q.notebook_id /\ r.version = q.version) => r = q]_vars

(* latest/version.txt of notebook n names a row that exists and is active *)
PointerValid(rows, ptr, n) ==
    \E r \in rows : r.notebook_id = n /\ r.version = ptr[n] /\ r.is_active

(* The step is an upload, replace, activate or delete call of the owner on *)
(* notebook n                                                              *)
ModelCallOn(n) ==
    \/ \E o \in UploadOutcomes : UploadModelVersion(nbOwner[n], n, TRUE, o)
    \/ \E o \in UploadOutcomes : ReplaceActiveModel(nbOwner[n], n, TRUE, o)
    \/ \E v \in Versions, o \in {"ok", "pointer_error"} :
          ActivateModelVersion(nbOwner[n], n, v, o)
    \/ \E v \in Versions, o \in {"ok", "delete_error"} :
          DeleteModelVersion(nbOwner[n], n, v, o)

(* C29 as stated: after every upload, activate or delete call that         *)
(* completed on a notebook, the notebook's latest/version.txt holds the    *)
(* version number of a ModelVersion row that exists and is active.         *)
C29_PointerNamesActiveVersion ==
    [][resp'.code = 200 =>
          \A n \in NotebookIds :
              (nbOwner[n] # NoUser /\ ModelCallOn(n))
                  => PointerValid(modelVersions', latestPtr', n)]_vars

(* C12: a delete request of the owner for a version that is active is     *)
(* answered 400 and leaves every ModelVersion row and every stored blob as *)
(* it is; a delete step removes inactive rows only, and when it removes    *)
(* one, exactly that row and that blob go and every other stays.           *)
C12_ActiveVersionNotDeleted ==
    [][resp'.op = "delete_model" =>
          /\ \A r \in modelVersions \ modelVersions' : ~r.is_active
          /\ \A n \in NotebookIds, v \in Versions :
                (users[nbOwner[n]].is_active /\ HasVersion(modelVersions, n, v)) =>
                   \A o \in {"ok", "delete_error"} :
                      DeleteModelVersion(nbOwner[n], n, v, o) =>
                         IF VersionRow(modelVersions, n, v).is_active
                         THEN /\ resp'.code = 400
                              /\ modelVersions' = modelVersions
                              /\ modelBlobs' = modelBlobs
                         ELSE IF resp'.code = 200
                         THEN /\ modelVersions' =
                                    modelVersions \ {VersionRow(modelVersions, n, v)}
                              /\ modelBlobs' = modelBlobs \ {<<n, v>>}
                         ELSE /\ modelVersions' = modelVersions
                              /\ modelBlobs' = modelBlobs]_vars

(* Every account is active, a notebook holds an active and an inactive     *)
(* version, and the last delete request was answered 400                   *)
C12_Witness ==
    /\ resp = [op |-> "delete_model", code |-> 400]
    /\ \A u \in Users : users[u].is_active
    /\ \E n \in NotebookIds :
          /\ ActiveRows(modelVersions, n) # {}
          /\ RowsOf(modelVersions, n) \ ActiveRows(modelVersions, n) # {}

----------------------------------------------------------------------------
(* Rate limiter (middleware/rate_limit.py)                                 *)

ExemptPaths == {"/health", "/docs", "/openapi.json", "/redoc"}
Paths == {"/health", "/api/v1/notebooks"}

(* How far the clock moves between two events *)
ClockSteps == {window_seconds - 1, window_seconds}

(* A sweep that also keeps a timestamp exactly one window old *)
KeepAtCutoff(list, current_time) ==
    SelectSeq(list, LAMBDA req_time : req_time >= current_time - window_seconds)

(* _cleanup_old_requests, lines 52-59: keep the timestamps newer than the  *)
(* cutoff; an emptied list is the deleted key                              *)
CleanupOld(list, current_time) ==
    SelectSeq(list, LAMBDA req_time : req_time > current_time - window_seconds)

(* A limiter that records the request before it tests the limit *)
DispatchRecordFirst(c, path) ==
    /\ UNCHANGED <<users, nbOwner, nbStatus, now>>
    /\ UNCHANGED <<deployVars, modelVars, hookVars, noteVars, adminVars, callVars, extVars>>
    /\ IF path \in ExemptPaths
       THEN Respond("dispatch_exempt", 200) /\ UNCHANGED requests
       ELSE LET cleaned == CleanupOld(requests[c], now)
            IN  /\ requests' = [requests EXCEPT ![c] = Append(cleaned, now)]
                /\ IF Len(cleaned) >= requests_per_minute
                   THEN Respond("dispatch", 429)
                   ELSE Respond("dispatch", 200)

(* dispatch, lines 16-44 *)
Dispatch(c, path) ==
    /\ UNCHANGED <<users, nbOwner, nbStatus, now>>
    /\ UNCHANGED <<deployVars, modelVars, hookVars, noteVars, adminVars, callVars, extVars>>
    /\ IF path \in ExemptPaths
       THEN Respond("dispatch_exempt", 200) /\ UNCHANGED requests
       ELSE LET cleaned == CleanupOld(requests[c], now)
            IN  IF Len(cleaned) >= requests_per_minute
                THEN /\ requests' = [requests EXCEPT ![c] = cleaned]
                     /\ Respond("dispatch", 429)
                ELSE /\ requests' = [requests EXCEPT ![c] = Append(cleaned, now)]
                     /\ Respond("dispatch", 200)

(* _periodic_cleanup, lines 61-73: one pass of the background sweep *)
PeriodicCleanup ==
    /\ \E c \in ClientIds : CleanupOld(requests[c], now) # requests[c]
    /\ requests' = [c \in ClientIds |-> CleanupOld(requests[c], now)]
    /\ UNCHANGED <<sharedVars, now>>
    /\ UNCHANGED <<deployVars, modelVars, hookVars, noteVars, adminVars, callVars, extVars>>

(* time.time() advances *)
Tick(step) ==
    /\ now + step <= MaxTime
    /\ now' = now + step
    /\ UNCHANGED <<sharedVars, requests>>
    /\ UNCHANGED <<deployVars, modelVars, hookVars, noteVars, adminVars, callVars, extVars>>

InitRate ==
    /\ InitAccounts
    /\ IdleDeploy /\ IdleModels /\ IdleRate /\ IdleHook /\ IdleNote /\ IdleAdmin /\ IdleCall /\ IdleExt

NextRate ==
    \/ \E c \in ClientIds, path \in Paths : Dispatch(c, path)
    \/ PeriodicCleanup
    \/ \E step \in ClockSteps : Tick(step)

SpecRate == InitRate /\ [][NextRate]_vars

(* The timestamps of client c that fall inside the window ending now *)
InWindow(c) ==
    SelectSeq(requests[c], LAMBDA t : now - t < window_seconds)

Last(list) == list[Len(list)]

C27_RecordedCountWithinLimit ==
    /\ [](\A c \in ClientIds : Len(requests[c]) <= requests_per_minute)
    /\ [][\A c \in ClientIds, path \in Paths :
             Dispatch(c, path) =>
               /\ (path \in ExemptPaths \/ resp'.code = 429) =>
                      \A k \in ClientIds : Len(requests'[k]) = Len(requests[k])
               /\ (path \notin ExemptPaths /\ resp'.code = 200) =>
                      requests_per_minute - Len(requests'[c]) >= 0]_vars

(* A client with a full window has had a request answered 429 and still   *)
(* has exactly the limit's number of timestamps recorded                   *)
C27_Witness ==
    \E c \in ClientIds :
        /\ resp = [op |-> "dispatch", code |-> 429]
        /\ Len(requests[c]) = requests_per_minute

----------------------------------------------------------------------------
(* GitHub webhook receiver (api/v1/webhooks.py)                            *)

Secrets == {"s1", "s2"}
Bodies == {"body-1", "body-2", "not json"}
GithubEvents == {"push", "ping", "issues"}
NoHeader == <<"absent">>

(* "sha256=" + hmac.new(secret, body, sha256).hexdigest(): distinct        *)
(* (secret, body) pairs give distinct signatures                           *)
ExpectedSignature(secret, body) == <<"sha256=", secret, body>>

(* The X-Hub-Signature-256 values a sender can put on a delivery *)
Headers ==
    {NoHeader} \cup {ExpectedSignature(k, b) : k \in Secrets, b \in Bodies}

(* The branch the event header selects, lines 90-95 *)
GithubHandler(event) ==
    CASE event = "push" -> "push"
      [] event = "ping" -> "ping"
      [] OTHER -> "ignored"

(* lines 75-87: the delivery is refused; verification runs only when a     *)
(* secret is configured and the header is present                          *)
SignatureRefused(secret, body, header) ==
    /\ secret # NoSecret
    /\ header # NoHeader
    /\ header # ExpectedSignature(secret, body)

(* POST /webhooks/github, lines 64-106.  The HTTPException(403) raised on  *)
(* a mismatch is caught by the `except Exception` clause and re-raised as  *)
(* a 500.                                                                  *)
GithubWebhook(event, body, header) ==
    /\ UNCHANGED <<users, nbOwner, nbStatus, ghSecret>>
    /\ UNCHANGED notHook
    /\ IF SignatureRefused(ghSecret, body, header)
       THEN Respond("github_webhook", 500) /\ UNCHANGED ghHandled
       ELSE IF body = "not json"
       THEN Respond("github_webhook", 400) /\ UNCHANGED ghHandled
       ELSE /\ ghHandled' = ghHandled \cup
                   {[handler |-> GithubHandler(event),
                     signed |-> IF header = NoHeader THEN "unsigned"
                                ELSE IF ghSecret # NoSecret
                                        /\ header = ExpectedSignature(ghSecret, body)
                                     THEN "valid" ELSE "unverified"]}
            /\ Respond("github_webhook", 200)

InitWebhook ==
    /\ InitAccounts
    /\ IdleDeploy /\ IdleModels /\ IdleRate /\ IdleNote /\ IdleAdmin /\ IdleCall /\ IdleExt
    /\ ghSecret \in {NoSecret, "s1"}
    /\ ghHandled = {}

NextWebhook ==
    \E event \in GithubEvents, body \in Bodies, header \in Headers :
        GithubWebhook(event, body, header)

SpecWebhook == InitWebhook /\ [][NextWebhook]_vars

(* C5 as stated: with a secret configured, only deliveries that carry the  *)
(* matching signature reach push, ping or ignore handling.                 *)
C5_OnlySignedDeliveriesHandled ==
    ghSecret # NoSecret => \A h \in ghHandled : h.signed = "valid"

----------------------------------------------------------------------------
(* Notebook parse and analyze (api/v1/notebooks.py)                        *)

(* get_user_notebook, lines 26-30: the row with this id and this owner *)
UserNotebook(u, n) == nbOwner[n] = u

(* A laxer gate, which also lets an analyzed notebook be parsed again *)
ParsableOrAnalyzed == {"uploaded", "parsed", "analyzed"}

(* The statuses parse_notebook accepts, line 73 *)
ParsableStatuses == {"uploaded", "parsed"}

(* The statuses analyze_notebook accepts, line 167 *)
AnalyzableStatuses == {"parsed"}

(* What the AI service does with one parse (core/notebook_service.py 51-72): *)
(* it sees no model, it writes a service program (the text of which is the   *)
(* language model's, one of two here), or the call raises                    *)
AiOutcomes == {"no_model", "app_a", "app_b", "ai_error"}

(* A parse that raises before it stores anything leaves no trace of what the *)
(* AI service answered                                                       *)
AiOutcomesFor(outcome) == IF outcome = "ok" THEN AiOutcomes ELSE {"no_model"}

(* NotebookParser.parse on the uploaded source of notebook n: the code cells *)
(* joined in order, their count and whether the program compiles             *)
ParseCells(n) ==
    [text |-> <<"cells", n>>, imports |-> {"numpy"},
     has_fastapi_app |-> FALSE, has_uvicorn_run |-> FALSE,
     code_cells_count |-> n, syntax_valid |-> TRUE]

(* GeminiService.generate_fastapi_app: the service program the language      *)
(* model returned                                                            *)
generate_fastapi_app(ai) ==
    [text |-> <<"generated", ai>>,
     imports |-> IF ai = "app_a" THEN {"fastapi", "joblib"}
                 ELSE {"fastapi", "joblib", "uvicorn"},
     has_fastapi_app |-> TRUE, has_uvicorn_run |-> (ai = "app_b")]

(* notebook_service.py 51-72: the program main.py holds after the AI step;   *)
(* a detected model replaces it with the generated program, a failure of the *)
(* AI call falls back to the cells' program                                  *)
ProgramAfterAi(n, ai) ==
    IF ai \in {"app_a", "app_b"} THEN generate_fastapi_app(ai) ELSE ParseCells(n)

(* NotebookService.parse_notebook, lines 27-127: the columns and artifacts   *)
(* it stores.  Dependencies are extracted from the program main.py holds     *)
(* after the AI step; an app without a uvicorn.run gets the startup code     *)
(* appended and uvicorn added; the cell count and the validity flag are      *)
(* those of the cells' program.                                              *)
parse_notebook(n, ai) ==
    LET program == ProgramAfterAi(n, ai)
        inject == program.has_fastapi_app /\ ~program.has_uvicorn_run
    IN  [main_py |-> IF inject THEN program.text \o <<"startup">> ELSE program.text,
         dependencies |-> IF inject THEN program.imports \cup {"uvicorn"}
                          ELSE program.imports,
         code_cells_count |-> ParseCells(n).code_cells_count,
         syntax_valid |-> ParseCells(n).syntax_valid]

(* POST /notebooks/{notebook_id}/parse, lines 65-91.  A completed parse    *)
(* rewrites the artifacts and the parse columns of the row (nbParse holds  *)
(* them and counts the rewrites); a parse that raises commits parse_failed.*)
ParseNotebook(u, n, outcome, ai) ==
    /\ IF ~ActiveCaller(u)
       THEN Respond("parse", 400) /\ UNCHANGED <<nbStatus, nbParse>>
       ELSE IF ~UserNotebook(u, n)
       THEN Respond("parse", 404) /\ UNCHANGED <<nbStatus, nbParse>>
       ELSE IF nbStatus[n] \notin ParsableStatuses
       THEN Respond("parse", 400) /\ UNCHANGED <<nbStatus, nbParse>>
       ELSE IF outcome = "parse_error"
       THEN /\ Respond("parse", 500)
            /\ nbStatus' = [nbStatus EXCEPT ![n] = "parse_failed"]
            /\ UNCHANGED nbParse
       ELSE /\ nbParse[n].count < MaxParses
            /\ Respond("parse", 200)
            /\ nbParse' = [nbParse EXCEPT ![n] =
                              [count |-> @.count + 1, stored |-> parse_notebook(n, ai)]]
            /\ nbStatus' = [nbStatus EXCEPT ![n] = "parsed"]
    /\ UNCHANGED <<users, nbOwner, analyses, aiCalls>>
    /\ UNCHANGED notNote
    /\ UNCHANGED deployVars

(* POST /notebooks/{notebook_id}/analyze, lines 159-203 *)
AnalyzeNotebook(u, n, outcome) ==
    /\ UNCHANGED <<users, nbOwner, nbParse>>
    /\ UNCHANGED notNote
    /\ UNCHANGED deployVars
    /\ IF ~ActiveCaller(u)
       THEN Respond("analyze", 400) /\ UNCHANGED <<nbStatus, analyses, aiCalls>>
       ELSE IF ~UserNotebook(u, n)
       THEN Respond("analyze", 404) /\ UNCHANGED <<nbStatus, analyses, aiCalls>>
       ELSE IF nbStatus[n] \notin AnalyzableStatuses
       THEN Respond("analyze", 400) /\ UNCHANGED <<nbStatus, analyses, aiCalls>>
       ELSE IF analyses[n] > 0
       THEN Respond("analyze", 200) /\ UNCHANGED <<nbStatus, analyses, aiCalls>>
       ELSE /\ aiCalls[n] < MaxAiCalls
            /\ aiCalls' = [aiCalls EXCEPT ![n] = @ + 1]
            /\ IF outcome = "ai_error"
               THEN Respond("analyze", 500) /\ UNCHANGED <<nbStatus, analyses>>
               ELSE /\ analyses' = [analyses EXCEPT ![n] = @ + 1]
                    /\ nbStatus' = [nbStatus EXCEPT ![n] = "analyzed"]
                    /\ Respond("analyze", 200)

(* The first notebook is in any status of its lifecycle, the others are    *)
(* freshly uploaded; an analyzed notebook has its Analysis row             *)
InitNotebook ==
    /\ \E a \in BOOLEAN :
          users = [u \in Users |-> [is_active |-> (u # 1) \/ a, is_superuser |-> FALSE]]
    /\ nbOwner = [n \in NotebookIds |-> n]
    /\ \E st \in NotebookStatuses, ai \in AiOutcomes :
          /\ nbStatus = [n \in NotebookIds |-> IF n = 1 THEN st ELSE "uploaded"]
          /\ nbParse = [n \in NotebookIds |->
                          IF n = 1 /\ st \in {"parsed", "analyzed"}
                          THEN [count |-> 1, stored |-> parse_notebook(n, ai)]
                          ELSE [count |-> 0, stored |-> Unparsed]]
          /\ analyses = [n \in NotebookIds |-> IF n = 1 /\ st = "analyzed" THEN 1 ELSE 0]
          /\ aiCalls = [n \in NotebookIds |-> IF n = 1 /\ st = "analyzed" THEN 1 ELSE 0]
    /\ resp = NoResp
    /\ IdleDeploy /\ IdleModels /\ IdleRate /\ IdleHook /\ IdleAdmin /\ IdleCall /\ IdleExt

NextNotebook ==
    \/ \E u \in Users, n \in NotebookIds, o \in {"ok", "parse_error"} :
          \E ai \in AiOutcomesFor(o) : ParseNotebook(u, n, o, ai)
    \/ \E u \in Users, n \in NotebookIds, o \in {"ok", "ai_error"} :
          AnalyzeNotebook(u, n, o)

SpecNotebook == InitNotebook /\ [][NextNotebook]_vars

(* C6 as stated: for a notebook that has an Analysis row, an analyze       *)
(* request by its owner is answered with that row (200), calls the AI      *)
(* service no further time and creates no second row.                      *)
C6_ReanalyzeReturnsExisting ==
    [][\A u \in Users, n \in NotebookIds, o \in {"ok", "ai_error"} :
          (AnalyzeNotebook(u, n, o)
             /\ users[u].is_active /\ nbOwner[n] = u /\ analyses[n] > 0)
          => (resp'.code = 200 /\ analyses' = analyses /\ aiCalls' = aiCalls
                /\ nbStatus' = nbStatus)]_vars

(* C7: a parse request by the owner is attempted only when the notebook is *)
(* uploaded or parsed; in every other status it is answered 400 and the    *)
(* notebook row and its artifacts stay as they are.                        *)
C7_ParseOnlyUploadedOrParsed ==
    [][resp'.op = "parse" =>
          \A n \in NotebookIds :
             users[nbOwner[n]].is_active =>
                \A o \in {"ok", "parse_error"} : \A ai \in AiOutcomesFor(o) :
                   ParseNotebook(nbOwner[n], n, o, ai) =>
                      IF nbStatus[n] \in {"uploaded", "parsed"}
                      THEN resp'.code \in {200, 500}
                      ELSE /\ resp'.code = 400
                           /\ nbStatus' = nbStatus
                           /\ nbParse' = nbParse
                           /\ analyses' = analyses]_vars

(* C16 as stated: while the storage calls return, a parse of a notebook    *)
(* that is already parsed, by its owner, is answered 200, leaves the       *)
(* status parsed and stores the program, dependency list, code-cell count  *)
(* and validity flag the parse before it stored.                           *)
C16_ReparseStoresSameOutput ==
    [][resp'.op = "parse" =>
          \A n \in NotebookIds :
             (users[nbOwner[n]].is_active /\ nbStatus[n] = "parsed"
                /\ nbParse[n].count > 0) =>
                \A ai \in AiOutcomes :
                   ParseNotebook(nbOwner[n], n, "ok", ai) =>
                      /\ resp'.code = 200
                      /\ nbStatus'[n] = "parsed"
                      /\ nbParse'[n].stored = nbParse[n].stored]_vars

(* A notebook that was parsed and analyzed through the endpoints has had a *)
(* further parse request answered 400                                      *)
C7_Witness ==
    /\ resp = [op |-> "parse", code |-> 400]
    /\ \A u \in Users : users[u].is_active
    /\ \E n \in NotebookIds \ {1} :
          /\ nbStatus[n] = "analyzed" /\ nbParse[n].count = 1 /\ analyses[n] = 1
          /\ \A m \in NotebookIds \ {n} : nbStatus[m] \in {"uploaded", "parsed"}

----------------------------------------------------------------------------
(* Administration (api/v1/admin.py, api/v1/admin_metrics.py) and its       *)
(* guards (utils/rbac.py, utils/deps.py).  A guard yields the status code  *)
(* it refuses the caller with, or Pass.                                    *)

Pass == 0

(* Roles.ADMIN *)
ADMIN == "admin"

(* The keys of DEFAULT_ROLES; developer, which no guard names, is left out *)
DefaultRoleNames == {"admin", "viewer"}

(* A UserUpdate field: left out of the body, or set to a boolean *)
UpdateValues == {"unset", "true", "false"}

(* `if field is not None: user.field = field` *)
Updated(old, field) == IF field = "unset" THEN old ELSE field = "true"

(* A guard that lets any holder of a role through, whatever its name *)
AnyRoleGuard(u, role_name) ==
    IF ~users[u].is_active THEN 400
    ELSE IF users[u].is_superuser THEN Pass
    ELSE IF userRoles[u] = {} THEN 403
    ELSE Pass

(* require_role(role_name), on top of get_current_active_user *)
RequireRole(u, role_name) ==
    IF ~users[u].is_active THEN 400
    ELSE IF users[u].is_superuser THEN Pass
    ELSE IF role_name \notin userRoles[u] THEN 403
    ELSE Pass

(* get_current_superuser, on top of get_current_user *)
CurrentSuperuser(u) ==
    IF ~users[u].is_active THEN 400
    ELSE IF ~users[u].is_superuser THEN 403
    ELSE Pass

(* The response of an administration endpoint, with the caller it went to *)
RespondTo(u, op, code) == resp' = [op |-> op, code |-> code, caller |-> u]

Refuse(u, code) ==
    /\ RespondTo(u, "admin", code)
    /\ UNCHANGED <<users, adminVars>>

(* GET /admin/users, /admin/roles, /admin/organizations *)
AdminList(u) ==
    /\ UNCHANGED <<nbOwner, nbStatus>> /\ UNCHANGED notAdmin
    /\ LET g == RequireRole(u, ADMIN)
       IN  IF g # Pass THEN Refuse(u, g)
           ELSE RespondTo(u, "admin", 200) /\ UNCHANGED <<users, adminVars>>

(* PUT /admin/users/{user_id}: is_active and is_superuser are written when *)
(* the body sets them                                                      *)
UpdateUser(u, target, active, super) ==
    /\ UNCHANGED <<nbOwner, nbStatus>> /\ UNCHANGED notAdmin
    /\ LET g == RequireRole(u, ADMIN)
       IN  IF g # Pass THEN Refuse(u, g)
           ELSE IF target \notin Users
           THEN RespondTo(u, "admin", 404) /\ UNCHANGED <<users, adminVars>>
           ELSE /\ users' = [users EXCEPT
                       ![target].is_active = Updated(@, active),
                       ![target].is_superuser = Updated(@, super)]
                /\ RespondTo(u, "admin", 200)
                /\ UNCHANGED adminVars

(* POST /admin/roles *)
CreateRole(u, name) ==
    /\ UNCHANGED <<nbOwner, nbStatus>> /\ UNCHANGED notAdmin
    /\ LET g == RequireRole(u, ADMIN)
       IN  IF g # Pass THEN Refuse(u, g)
           ELSE IF name \in roles
           THEN RespondTo(u, "admin", 400) /\ UNCHANGED <<users, adminVars>>
           ELSE /\ roles' = roles \cup {name}
                /\ RespondTo(u, "admin", 201)
                /\ UNCHANGED <<users, userRoles, orgs>>

(* POST /admin/roles/assign *)
AssignRoleToUser(u, target, name) ==
    /\ UNCHANGED <<nbOwner, nbStatus>> /\ UNCHANGED notAdmin
    /\ LET g == RequireRole(u, ADMIN)
       IN  IF g # Pass THEN Refuse(u, g)
           ELSE IF target \notin Users \/ name \notin roles
           THEN RespondTo(u, "admin", 404) /\ UNCHANGED <<users, adminVars>>
           ELSE IF name \in userRoles[target]
           THEN RespondTo(u, "admin", 400) /\ UNCHANGED <<users, adminVars>>
           ELSE /\ userRoles' = [userRoles EXCEPT ![target] = @ \cup {name}]
                /\ RespondTo(u, "admin", 200)
                /\ UNCHANGED <<users, roles, orgs>>

(* DELETE /admin/roles/assign *)
RemoveRoleFromUser(u, target, name) ==
    /\ UNCHANGED <<nbOwner, nbStatus>> /\ UNCHANGED notAdmin
    /\ LET g == RequireRole(u, ADMIN)
       IN  IF g # Pass THEN Refuse(u, g)
           ELSE IF target \notin Users \/ name \notin roles
           THEN RespondTo(u, "admin", 404) /\ UNCHANGED <<users, adminVars>>
           ELSE IF name \notin userRoles[target]
           THEN RespondTo(u, "admin", 400) /\ UNCHANGED <<users, adminVars>>
           ELSE /\ userRoles' = [userRoles EXCEPT ![target] = @ \ {name}]
                /\ RespondTo(u, "admin", 200)
                /\ UNCHANGED <<users, roles, orgs>>

(* POST /admin/organizations *)
CreateOrganization(u, name, owner) ==
    /\ UNCHANGED <<nbOwner, nbStatus>> /\ UNCHANGED notAdmin
    /\ LET g == RequireRole(u, ADMIN)
       IN  IF g # Pass THEN Refuse(u, g)
           ELSE IF name \in orgs
           THEN RespondTo(u, "admin", 400) /\ UNCHANGED <<users, adminVars>>
           ELSE IF owner \notin Users
           THEN RespondTo(u, "admin", 404) /\ UNCHANGED <<users, adminVars>>
           ELSE /\ orgs' = orgs \cup {name}
                /\ RespondTo(u, "admin", 201)
                /\ UNCHANGED <<users, userRoles, roles>>

(* POST /admin/init-roles: init_default_roles adds the missing defaults *)
InitializeDefaultRoles(u) ==
    /\ UNCHANGED <<nbOwner, nbStatus>> /\ UNCHANGED notAdmin
    /\ LET g == RequireRole(u, ADMIN)
       IN  IF g # Pass THEN Refuse(u, g)
           ELSE /\ roles' = roles \cup DefaultRoleNames
                /\ RespondTo(u, "admin", 200)
                /\ UNCHANGED <<users, userRoles, orgs>>

(* GET /admin/metrics/system, /users/activity, /deployments/overview *)
AdminMetrics(u) ==
    /\ UNCHANGED <<nbOwner, nbStatus, users, adminVars>> /\ UNCHANGED notAdmin
    /\ LET g == CurrentSuperuser(u)
       IN  IF g # Pass THEN RespondTo(u, "admin_metrics", g)
           ELSE RespondTo(u, "admin_metrics", 200)

(* Any request of caller u to an /admin/* endpoint *)
AdminCall(u) ==
    \/ AdminList(u)
    \/ \E target \in Users \cup {NoUser}, active \in UpdateValues, super \in UpdateValues :
          UpdateUser(u, target, active, super)
    \/ \E name \in RoleNames : CreateRole(u, name)
    \/ \E target \in Users \cup {NoUser}, name \in RoleNames :
          AssignRoleToUser(u, target, name)
    \/ \E target \in Users \cup {NoUser}, name \in RoleNames :
          RemoveRoleFromUser(u, target, name)
    \/ \E name \in OrgNames, owner \in Users \cup {NoUser} :
          CreateOrganization(u, name, owner)
    \/ InitializeDefaultRoles(u)

(* Accounts in any combination of active and superuser flags; no role, no  *)
(* organization yet                                                        *)
InitAdmin ==
    /\ users \in [Users -> [is_active : BOOLEAN, is_superuser : BOOLEAN]]
    /\ nbOwner = [n \in NotebookIds |-> n]
    /\ nbStatus = [n \in NotebookIds |-> "uploaded"]
    /\ resp = NoResp
    /\ IdleDeploy /\ IdleModels /\ IdleRate /\ IdleHook /\ IdleNote /\ IdleAdmin /\ IdleCall /\ IdleExt

NextAdmin ==
    \/ \E u \in Users : AdminCall(u)
    \/ \E u \in Users : AdminMetrics(u)

SpecAdmin == InitAdmin /\ [][NextAdmin]_vars

NotAdmin(u) == ~users[u].is_superuser /\ "admin" \notin userRoles[u]

(* This step answered a request of caller u to an /admin/* or an           *)
(* /admin/metrics/* endpoint                                               *)
AdminRequestBy(u) ==
    /\ resp'.op \in {"admin", "admin_metrics"}
    /\ resp'.caller = u

(* C10 as stated: a user who is not a superuser and does not hold the role *)
(* admin gets 403 from every /admin/* and /admin/metrics/* endpoint, and   *)
(* the request changes no user, role or organization.                      *)
C10_NonAdminGets403 ==
    [][\A u \in Users :
          (AdminRequestBy(u) /\ NotAdmin(u))
          => (resp'.code = 403 /\ UNCHANGED <<users, userRoles, roles, orgs>>)]_vars

(* C10, amended: such a user gets 403 when the account is active and 400   *)
(* (inactive user) when it has been deactivated; in both cases the request *)
(* changes no user, role or organization.                                  *)
C10_NonAdminRefused ==
    [][\A u \in Users :
          (AdminRequestBy(u) /\ NotAdmin(u))
          => /\ resp'.code = IF users[u].is_active THEN 403 ELSE 400
             /\ UNCHANGED <<users, userRoles, roles, orgs>>]_vars

(* A user who holds only the role viewer, after roles were created and     *)
(* assigned, has been answered 403 by an /admin/* endpoint                 *)
C10_Witness ==
    /\ "admin" \in roles
    /\ \E u \in Users :
          /\ resp = [op |-> "admin", code |-> 403, caller |-> u]
          /\ users[u].is_active /\ ~users[u].is_superuser
          /\ userRoles[u] = {"viewer"}

----------------------------------------------------------------------------
(* Tokens (utils/security.py), the bearer guard (utils/deps.py) and the    *)
(* refresh endpoint (api/v1/auth.py).  A token is what jwt.decode can tell *)
(* about it: whether it parses, which key signed it, and its claims.       *)

\* settings.access_token_expire_minutes, in seconds
access_token_expire_seconds == 30 * 60

\* An id that no row of the users table carries
DeletedUserId == 3

\* The result of verify_token when it returns None
None == [absent |-> TRUE]
NoToken == [form |-> "none"]

TokenTypes == {"access", "refresh"}

(* The tokens a client can present now: malformed or a JWT, signed with    *)
(* settings.secret_key or with another key, with or without a type and a   *)
(* sub claim, expiring just before, at, or just after the current second   *)
PresentableTokens ==
    [form : {"jwt", "malformed"},
     key : {"secret_key", "other_key"},
     type : TokenTypes \cup {"absent"},
     sub : Users \cup {DeletedUserId, NoUser},
     exp : {e \in {now - 1, now, now + 1} : e >= 0}]

(* jwt.decode of python-jose: a JWTError for a token that does not parse,  *)
(* whose signature does not verify, or whose exp lies before the current   *)
(* second; otherwise the claims                                            *)
JwtDecodes(token, at) ==
    /\ token.form = "jwt"
    /\ token.key = "secret_key"
    /\ ~(token.exp < at)

Payload(token) == [type |-> token.type, sub |-> token.sub, exp |-> token.exp]

(* A verification that does not look at the type claim *)
verify_any_type(token, token_type, at) ==
    IF ~JwtDecodes(token, at) THEN None
    ELSE Payload(token)

(* verify_token, lines 51-59 *)
verify_token(token, token_type, at) ==
    IF ~JwtDecodes(token, at) THEN None
    ELSE IF token.type # token_type THEN None
    ELSE Payload(token)

(* create_access_token, lines 29-39 *)
create_access_token(sub, at) ==
    [form |-> "jwt", key |-> "secret_key", type |-> "access", sub |-> sub,
     exp |-> at + access_token_expire_seconds]

(* The response of an authentication step: the token that was presented,   *)
(* the user the request runs as, and the token that was issued             *)
AuthRespond(op, code, token, user, issued) ==
    resp' = [op |-> op, code |-> code, presented |-> token, user |-> user,
             issued |-> issued]

notAuth == <<deployVars, modelVars, hookVars, noteVars, adminVars, callVars, extVars>>

(* get_current_user, deps.py lines 14-50: any request behind the bearer    *)
(* guard                                                                   *)
BearerRequest(token) ==
    /\ LET payload == verify_token(token, "access", now)
       IN  IF payload = None
           THEN AuthRespond("bearer", 401, token, NoUser, NoToken)
           ELSE IF payload.sub = NoUser
           THEN AuthRespond("bearer", 401, token, NoUser, NoToken)
           ELSE IF payload.sub \notin Users
           THEN AuthRespond("bearer", 401, token, NoUser, NoToken)
           ELSE IF ~users[payload.sub].is_active
           THEN AuthRespond("bearer", 400, token, NoUser, NoToken)
           ELSE AuthRespond("bearer", 200, token, payload.sub, NoToken)
    /\ UNCHANGED <<users, nbOwner, nbStatus, rateVars>>
    /\ UNCHANGED notAuth

(* POST /auth/refresh, auth.py lines 83-118 *)
RefreshAccessToken(token) ==
    /\ LET payload == verify_token(token, "refresh", now)
       IN  IF payload = None
           THEN AuthRespond("refresh", 401, token, NoUser, NoToken)
           ELSE IF payload.sub = NoUser
           THEN AuthRespond("refresh", 401, token, NoUser, NoToken)
           ELSE IF payload.sub \notin Users
           THEN AuthRespond("refresh", 404, token, NoUser, NoToken)
           ELSE IF ~users[payload.sub].is_active
           THEN AuthRespond("refresh", 403, token, NoUser, NoToken)
           ELSE AuthRespond("refresh", 200, token, payload.sub,
                            create_access_token(payload.sub, now))
    /\ UNCHANGED <<users, nbOwner, nbStatus, rateVars>>
    /\ UNCHANGED notAuth

(* Accounts active or deactivated in any combination *)
InitAuth ==
    /\ users \in [Users -> [is_active : BOOLEAN, is_superuser : {FALSE}]]
    /\ nbOwner = [n \in NotebookIds |-> n]
    /\ nbStatus = [n \in NotebookIds |-> "uploaded"]
    /\ resp = NoResp
    /\ IdleDeploy /\ IdleModels /\ IdleRate /\ IdleHook /\ IdleNote /\ IdleAdmin /\ IdleCall /\ IdleExt

NextAuth ==
    \/ \E token \in PresentableTokens : BearerRequest(token)
    \/ \E token \in PresentableTokens : RefreshAccessToken(token)
    \/ \E step \in ClockSteps : Tick(step)

SpecAuth == InitAuth /\ [][NextAuth]_vars

(* A correctly signed, unexpired token of the given type *)
GoodToken(token, token_type, at) ==
    /\ token.form = "jwt"
    /\ token.key = "secret_key"
    /\ token.exp >= at
    /\ token.type = token_type

(* This step answered a request to the bearer guard or to the refresh     *)
(* endpoint (the clock does not move within a request)                     *)
AuthStep(op) == resp'.op = op /\ now' = now

(* C11: verify_token returns a payload only for a correctly signed,        *)
(* unexpired token whose type equals the expected kind, and otherwise      *)
(* returns nothing; the bearer guard admits no request on a refresh token, *)
(* the refresh endpoint accepts no access token, and the refresh endpoint  *)
(* issues only an access token and only for a user that exists and is      *)
(* active.                                                                 *)
C11_TokenTypeIsEnforced ==
    [][/\ (AuthStep("bearer") \/ AuthStep("refresh")) =>
             \A k \in TokenTypes :
                LET result == verify_token(resp'.presented, k, now)
                IN  /\ result \in {None, Payload(resp'.presented)}
                    /\ result # None => GoodToken(resp'.presented, k, now)
       /\ (AuthStep("bearer") /\ resp'.code = 200) =>
             /\ GoodToken(resp'.presented, "access", now)
             /\ resp'.presented.type # "refresh"
       /\ AuthStep("bearer") =>
             (resp'.presented.type = "refresh" => resp'.code = 401)
       /\ AuthStep("refresh") =>
             /\ resp'.presented.type = "access" =>
                   (resp'.code = 401 /\ resp'.issued = NoToken)
             /\ resp'.issued # NoToken =>
                   /\ GoodToken(resp'.presented, "refresh", now)
                   /\ resp'.issued.type = "access"
                   /\ resp'.presented.sub \in Users
                   /\ users[resp'.presented.sub].is_active
                   /\ resp'.issued.sub = resp'.presented.sub]_vars

(* A correctly signed, unexpired refresh token of an active user has been  *)
(* presented to the bearer guard and answered 401                          *)
C11_Witness ==
    /\ resp.op = "bearer"
    /\ resp.code = 401
    /\ GoodToken(resp.presented, "refresh", now)
    /\ resp.presented.sub \in Users
    /\ users[resp.presented.sub].is_active

----------------------------------------------------------------------------
(* Health score (core/gemini.py)                                           *)

\* The longest issue list the model scores
MaxIssues == 6

(* The severity field of an issue: one of the four the score knows, any    *)
(* other word, or no field at all                                          *)
Severities == {"critical", "high", "medium", "low", "info", "absent"}

IssueLists == UNION {[1..k -> Severities] : k \in 0..MaxIssues}

(* issue.get('severity', 'low') *)
SeverityOf(issue) == IF issue = "absent" THEN "low" ELSE issue

(* lines 94-101: what one issue takes off the score *)
Deduction(severity) ==
    IF severity = "critical" THEN 20
    ELSE IF severity = "high" THEN 10
    ELSE IF severity = "medium" THEN 5
    ELSE IF severity = "low" THEN 2
    ELSE 0

(* lines 92-101: the loop over the issues, from issue i on *)
RECURSIVE ScoreLoop(_, _, _)
ScoreLoop(issues, i, score) ==
    IF i > Len(issues) THEN score
    ELSE ScoreLoop(issues, i + 1, score - Deduction(SeverityOf(issues[i])))

(* A result that is returned as computed *)
Unclamped(score) == score

(* line 103: max(0, min(100, score)) *)
Clamp(score) ==
    LET capped == IF score < 100 THEN score ELSE 100
    IN  IF capped > 0 THEN capped ELSE 0

(* calculate_health_score, lines 88-103 *)
calculate_health_score(issues) == Clamp(ScoreLoop(issues, 1, 100))

CalculateHealthScore ==
    /\ callResult = NoResult
    /\ callResult' = Returned(calculate_health_score(callArg))
    /\ UNCHANGED <<sharedVars, callArg>>
    /\ UNCHANGED <<deployVars, modelVars, rateVars, hookVars, noteVars, adminVars, extVars>>

InitHealth ==
    /\ users = [u \in Users |-> [is_active |-> TRUE, is_superuser |-> FALSE]]
    /\ nbOwner = [n \in NotebookIds |-> n]
    /\ nbStatus = [n \in NotebookIds |-> "parsed"]
    /\ resp = NoResp
    /\ IdleDeploy /\ IdleModels /\ IdleRate /\ IdleHook /\ IdleNote /\ IdleAdmin /\ IdleExt
    /\ callArg \in IssueLists
    /\ callResult = NoResult

NextHealth == CalculateHealthScore

SpecHealth == InitHealth /\ [][NextHealth]_vars

(* The number of issues of a list that are read with the given severity *)
CountOf(issues, severity) ==
    Cardinality({i \in 1..Len(issues) : SeverityOf(issues[i]) = severity})

(* C14: the score of an issue list is 100 minus 20 per critical, 10 per    *)
(* high, 5 per medium and 2 per low issue (an issue without a severity is  *)
(* read as low), brought into 0..100: 75 for one critical and one medium   *)
(* issue, 0 for five critical issues, 100 for no issue.                    *)
C14_HealthScore ==
    callResult # NoResult =>
        LET raw == 100 - 20 * CountOf(callArg, "critical")
                       - 10 * CountOf(callArg, "high")
                       - 5 * CountOf(callArg, "medium")
                       - 2 * CountOf(callArg, "low")
        IN  /\ callResult = Returned(IF raw < 0 THEN 0 ELSE raw)
            /\ callResult[2] \in 0..100
            /\ callArg = <<"critical", "medium">> => callResult = Returned(75)
            /\ callArg = [i \in 1..5 |-> "critical"] => callResult = Returned(0)
            /\ callArg = << >> => callResult = Returned(100)

(* Six critical issues, whose deductions pass below zero, have been scored *)
(* 0                                                                       *)
C14_Witness ==
    /\ callArg = [i \in 1..6 |-> "critical"]
    /\ callResult = Returned(0)

----------------------------------------------------------------------------
(* Export (core/export_service.py, api/v1/notebooks.py export_notebook).   *)
(* callArg is the notebook row that is exported, callResult the names of   *)
(* the files in the zip.                                                   *)

(* Dependency lists a parse can store: none (only standard-library         *)
(* imports), a plain library, and the three app frameworks                 *)
DependencyLists ==
    {<< >>, <<"pandas">>, <<"fastapi", "uvicorn">>, <<"streamlit">>, <<"flask">>}

InList(x, list) == \E i \in 1..Len(list) : list[i] = x

(* DockerfileGenerator.detect_app_type *)
detect_app_type(dependencies) ==
    IF InList("streamlit", dependencies) THEN "streamlit"
    ELSE IF InList("fastapi", dependencies) THEN "fastapi"
    ELSE IF InList("flask", dependencies) THEN "flask"
    ELSE "default"

(* create_export_package, lines 20-115: the files written into the export  *)
(* directory, all of which are zipped                                      *)
create_export_package(notebook) ==
    (IF notebook.main_py_path = "gs" THEN {"main.py"} ELSE {})
    \cup (IF notebook.dependencies # << >> THEN {"requirements.txt"} ELSE {})
    \cup (IF detect_app_type(notebook.dependencies) \in {"fastapi", "streamlit"}
          THEN {"app.py"} ELSE {})
    \cup {"Dockerfile", "README.md", "docker-compose.yml", "deploy.sh",
          ".gitignore", "test_app.py"}

(* The statuses export_notebook accepts, line 214 *)
ExportableStatuses == {"parsed", "analyzed"}

(* GET /notebooks/{notebook_id}/export, lines 206-226 *)
ExportNotebook(outcome) ==
    /\ callResult = NoResult
    /\ IF callArg.status \notin ExportableStatuses
       THEN Respond("export", 400) /\ callResult' = Returned({})
       ELSE IF outcome = "storage_error"
       THEN Respond("export", 500) /\ callResult' = Returned({})
       ELSE Respond("export", 200)
            /\ callResult' = Returned(create_export_package(callArg))
    /\ UNCHANGED <<users, nbOwner, nbStatus, callArg>>
    /\ UNCHANGED <<deployVars, modelVars, rateVars, hookVars, noteVars, adminVars, extVars>>

(* A notebook row in any status; parse has stored the program and the      *)
(* dependency list of a row that is parsed or later                        *)
ParsedOrLater == {"parsed", "analyzed", "building", "deploying", "deployed"}

InitExport ==
    /\ users = [u \in Users |-> [is_active |-> TRUE, is_superuser |-> FALSE]]
    /\ nbOwner = [n \in NotebookIds |-> n]
    /\ nbStatus = [n \in NotebookIds |-> "uploaded"]
    /\ resp = NoResp
    /\ IdleDeploy /\ IdleModels /\ IdleRate /\ IdleHook /\ IdleNote /\ IdleAdmin /\ IdleExt
    /\ \E st \in NotebookStatuses, deps \in DependencyLists, analyzed \in BOOLEAN :
          callArg = [status |-> st,
                     main_py_path |-> IF st \in ParsedOrLater THEN "gs" ELSE "none",
                     dependencies |-> IF st \in ParsedOrLater THEN deps ELSE << >>,
                     has_analysis |-> st = "analyzed" \/ (st \in ParsedOrLater /\ analyzed)]
    /\ callResult = NoResult

NextExport == \E outcome \in {"ok", "storage_error"} : ExportNotebook(outcome)

SpecExport == InitExport /\ [][NextExport]_vars

(* The generated program, the requirements manifest, the Dockerfile, the   *)
(* README, the compose file, the deploy script, the ignore file and the    *)
(* smoke-test file                                                         *)
RequiredExportFiles ==
    {"main.py", "requirements.txt", "Dockerfile", "README.md",
     "docker-compose.yml", "deploy.sh", ".gitignore", "test_app.py"}

(* C15 as stated: the export of a notebook whose status is parsed or later *)
(* is a zip that holds at least the eight required files.                  *)
C15_ExportHoldsRequiredFiles ==
    (resp.op = "export" /\ resp.code # 500 /\ callArg.status \in ParsedOrLater)
        => RequiredExportFiles \subseteq callResult[2]

----------------------------------------------------------------------------
(* Builds (api/v1/builds.py), the build part of the one-click pipeline     *)
(* (api/v1/pipeline.py) and the build-status webhook (api/v1/webhooks.py). *)
(* Every db.commit() ends one step of a background job.                    *)

(* cloudbuild_v1.Build.Status: the number the jobs compare status with *)
StatusValue(name) ==
    CASE name = "QUEUED" -> 1
      [] name = "WORKING" -> 2
      [] name = "SUCCESS" -> 3
      [] name = "FAILURE" -> 4
      [] name = "INTERNAL_ERROR" -> 5
      [] name = "TIMEOUT" -> 6
      [] name = "CANCELLED" -> 7
      [] OTHER -> 0

(* The row trigger_build and execute_pipeline insert; build_id holds a     *)
(* locally made id until the build service has returned its own            *)
NewBuild(n) ==
    [notebook_id |-> n, status |-> "queued", provider_id |-> FALSE,
     error_message |-> "none"]

FreeBuildIds == {b \in BuildIds : builds[b] = NoRow /\ buildJob[b].pc = "idle"}

FirstFreeBuildId == CHOOSE x \in FreeBuildIds : \A y \in FreeBuildIds : x <= y

notBuild == <<deployVars, modelVars, rateVars, hookVars, noteVars, adminVars, callVars, streamVars, keyVars>>

\* What the pipeline job leaves alone besides the tables it writes
pipelineFrame == <<job, cloudRun, metricRows, modelVars, rateVars, hookVars, noteVars,
                   adminVars, streamVars, keyVars>>

SetBuildJob(b, pc, err) ==
    buildJob' = [buildJob EXCEPT ![b].pc = pc, ![b].err = err]

(* POST /builds/trigger/{notebook_id}, builds.py 36-92 *)
TriggerBuild(u, n, outcome) ==
    /\ FreeBuildIds # {}
    /\ IF ~ActiveCaller(u)
       THEN Respond("trigger_build", 400) /\ UNCHANGED <<builds, buildJob>>
       ELSE IF nbOwner[n] # u
       THEN Respond("trigger_build", 404) /\ UNCHANGED <<builds, buildJob>>
       ELSE IF nbStatus[n] # "parsed"
       THEN Respond("trigger_build", 400) /\ UNCHANGED <<builds, buildJob>>
       ELSE IF outcome = "upload_error"
       THEN Respond("trigger_build", 500) /\ UNCHANGED <<builds, buildJob>>
       ELSE /\ Respond("trigger_build", 201)
            /\ builds' = [builds EXCEPT ![FirstFreeBuildId] = NewBuild(n)]
            /\ buildJob' = [buildJob EXCEPT ![FirstFreeBuildId] =
                               [kind |-> "build", pc |-> "scheduled", err |-> "none",
                                deployment |-> 0]]
    /\ UNCHANGED <<users, nbOwner, nbStatus, provider>>
    /\ UNCHANGED notBuild

(* execute_pipeline, pipeline.py 139-279: the job of POST /pipeline/deploy *)
(* parses the notebook it was given (status parsing, then parsed), uploads *)
(* the source and inserts a queued Build.  A fault before the insert       *)
(* leaves the notebook failed and no Build row.                            *)
PipelineQueueBuild(n, outcome) ==
    /\ FreeBuildIds # {}
    /\ nbStatus[n] = "uploaded"
    /\ IF outcome = "parse_error"
       THEN /\ nbStatus' = [nbStatus EXCEPT ![n] = "failed"]
            /\ UNCHANGED <<builds, buildJob>>
       ELSE /\ nbStatus' = [nbStatus EXCEPT ![n] = "parsed"]
            /\ builds' = [builds EXCEPT ![FirstFreeBuildId] = NewBuild(n)]
            /\ buildJob' = [buildJob EXCEPT ![FirstFreeBuildId] =
                               [kind |-> "pipeline", pc |-> "scheduled", err |-> "none",
                                deployment |-> 0]]
    /\ UNCHANGED <<users, nbOwner, resp, provider>>
    /\ UNCHANGED notBuild

(* builds.py 104-106, pipeline.py 281-283: commit status building *)
BuildStart(b) ==
    /\ buildJob[b].pc = "scheduled"
    /\ \/ /\ builds' = [builds EXCEPT ![b].status = "building"]
          /\ SetBuildJob(b, "trigger", "none")
       \/ /\ SetBuildJob(b, "handler", "db error")
          /\ UNCHANGED builds
    /\ UNCHANGED <<sharedVars, provider>>
    /\ UNCHANGED notBuild

(* cloud_build_service.trigger_build: the build service has queued a build *)
(* once the call has returned                                             *)
trigger_build(b) == provider' = [provider EXCEPT ![b] = "QUEUED"]

(* builds.py 108-118, pipeline.py 285-294: submit the build and commit the *)
(* id the build service gave it                                            *)
BuildSubmit(b) ==
    /\ buildJob[b].pc = "trigger"
    /\ \/ /\ trigger_build(b)
          /\ builds' = [builds EXCEPT ![b].provider_id = TRUE]
          /\ SetBuildJob(b, "polling", "none")
       \/ /\ SetBuildJob(b, "handler", "trigger error")
          /\ UNCHANGED <<builds, provider>>
    /\ UNCHANGED sharedVars
    /\ UNCHANGED notBuild

(* The message execute_build stores for a failed build, builds.py 133-156 *)
BuildErrorMessage(status_value) ==
    CASE status_value = 4 -> "Build failed"
      [] status_value = 5 -> "Build internal error"
      [] status_value = 6 -> "Build timeout"
      [] OTHER -> "Build cancelled"

(* builds.py 120-158: one iteration of execute_build's poll loop *)
ExecuteBuildPoll(b) ==
    /\ buildJob[b].pc = "polling"
    /\ buildJob[b].kind = "build"
    /\ \/ LET status_value == StatusValue(provider[b])
          IN  IF status_value = 3
              THEN /\ builds' = [builds EXCEPT ![b].status = "success"]
                   /\ SetBuildJob(b, "done", "none")
              ELSE IF status_value \in {4, 5, 6, 7}
              THEN /\ builds' = [builds EXCEPT
                          ![b].status = "failed",
                          ![b].error_message = BuildErrorMessage(status_value)]
                   /\ SetBuildJob(b, "done", "none")
              ELSE UNCHANGED <<builds, buildJob>>       \* time.sleep(5)
       \/ /\ SetBuildJob(b, "handler", "get_build error")
          /\ UNCHANGED builds
    /\ UNCHANGED <<sharedVars, provider>>
    /\ UNCHANGED notBuild

(* builds.py 160-164: the except clause of execute_build *)
ExecuteBuildHandler(b) ==
    /\ buildJob[b].pc = "handler"
    /\ buildJob[b].kind = "build"
    /\ \/ /\ builds' = [builds EXCEPT ![b].status = "failed",
                                      ![b].error_message = buildJob[b].err]
          /\ SetBuildJob(b, "done", buildJob[b].err)
       \/ /\ SetBuildJob(b, "crashed", buildJob[b].err)
          /\ UNCHANGED builds
    /\ UNCHANGED <<sharedVars, provider>>
    /\ UNCHANGED notBuild

(* pipeline.py 296-312: one iteration of the pipeline's poll loop; a       *)
(* failed build is committed and then raised                               *)
PipelinePoll(b) ==
    /\ buildJob[b].pc = "polling"
    /\ buildJob[b].kind = "pipeline"
    /\ \/ LET status_value == StatusValue(provider[b])
          IN  IF status_value = 3
              THEN /\ builds' = [builds EXCEPT ![b].status = "success"]
                   /\ SetBuildJob(b, "deploy", "none")
              ELSE IF status_value \in {4, 5, 6, 7}
              THEN /\ builds' = [builds EXCEPT
                          ![b].status = "failed",
                          ![b].error_message = "Build failed with status"]
                   /\ SetBuildJob(b, "handler", "Build failed")
              ELSE UNCHANGED <<builds, buildJob>>       \* time.sleep(5)
       \/ /\ SetBuildJob(b, "handler", "get_build error")
          /\ UNCHANGED builds
    /\ UNCHANGED <<sharedVars, provider>>
    /\ UNCHANGED notBuild

(* pipeline.py 316-328: the Deployment row of the run, status deploying *)
NewPipelineDeployment(n) ==
    [NewDeployment(n, nbOwner[n], CHOOSE name \in ServiceNames : TRUE)
        EXCEPT !.status = "deploying", !.build_id = TRUE]

(* pipeline.py 314-328: after a successful build the job inserts the       *)
(* Deployment row; the insert can raise                                    *)
PipelineCreateDeployment(b) ==
    /\ buildJob[b].pc = "deploy"
    /\ FreeDeployIds # {}
    /\ \/ LET d == CHOOSE x \in FreeDeployIds : \A y \in FreeDeployIds : x <= y
          IN  /\ deployments' = [deployments EXCEPT
                     ![d] = NewPipelineDeployment(builds[b].notebook_id)]
              /\ buildJob' = [buildJob EXCEPT ![b].pc = "service", ![b].deployment = d]
       \/ /\ SetBuildJob(b, "handler", "deploy error")
          /\ UNCHANGED deployments
    /\ UNCHANGED <<sharedVars, builds, provider, callVars>>
    /\ UNCHANGED pipelineFrame

(* pipeline.py 330-357: deploy the service, commit the Deployment          *)
(* deployed, then the notebook deployed; each of these calls can raise     *)
PipelineDeploy(b) ==
    /\ buildJob[b].pc = "service"
    /\ LET d == buildJob[b].deployment
           n == builds[b].notebook_id
       IN  \/ /\ deployments' = [deployments EXCEPT ![d].status = "deployed",
                                                    ![d].service_url = TRUE]
              /\ nbStatus' = [nbStatus EXCEPT ![n] = "deployed"]
              /\ SetBuildJob(b, "done", "none")
           \/ /\ deployments' = [deployments EXCEPT ![d].status = "deployed",
                                                    ![d].service_url = TRUE]
              /\ SetBuildJob(b, "handler", "db error")
              /\ UNCHANGED nbStatus
           \/ /\ SetBuildJob(b, "handler", "deploy error")
              /\ UNCHANGED <<deployments, nbStatus>>
    /\ UNCHANGED <<users, nbOwner, resp, builds, provider, callVars>>
    /\ UNCHANGED pipelineFrame

(* pipeline.py 359-374: the except clause of execute_pipeline commits the  *)
(* notebook failed, then the Build failed with the fault's message, then   *)
(* the Deployment failed when the run had created one                      *)
PipelineHandler(b) ==
    /\ buildJob[b].pc = "handler"
    /\ buildJob[b].kind = "pipeline"
    /\ LET d == buildJob[b].deployment
       IN  \/ /\ nbStatus' = [nbStatus EXCEPT ![builds[b].notebook_id] = "failed"]
              /\ builds' = [builds EXCEPT ![b].status = "failed",
                                          ![b].error_message = buildJob[b].err]
              /\ deployments' =
                    IF d = 0 THEN deployments
                    ELSE [deployments EXCEPT ![d].status = "failed",
                                             ![d].error_message = buildJob[b].err]
              /\ SetBuildJob(b, "done", buildJob[b].err)
           \/ /\ SetBuildJob(b, "crashed", buildJob[b].err)
              /\ UNCHANGED <<nbStatus, builds, deployments>>
    /\ UNCHANGED <<users, nbOwner, resp, provider, callVars>>
    /\ UNCHANGED pipelineFrame

(* The build service works on a submitted build and ends it *)
ProviderStep(b) ==
    /\ \/ provider[b] = "QUEUED" /\ provider' = [provider EXCEPT ![b] = "WORKING"]
       \/ /\ provider[b] = "WORKING"
          /\ \E end \in {"SUCCESS", "FAILURE", "INTERNAL_ERROR", "TIMEOUT", "CANCELLED"} :
                provider' = [provider EXCEPT ![b] = end]
    /\ UNCHANGED <<sharedVars, builds, buildJob>>
    /\ UNCHANGED notBuild

(* POST /builds/{build_id}/refresh, builds.py 226-271 *)
RefreshBuildStatus(u, b) ==
    /\ IF ~ActiveCaller(u)
       THEN Respond("refresh_build", 400) /\ UNCHANGED builds
       ELSE IF builds[b] = NoRow \/ nbOwner[builds[b].notebook_id] # u
       THEN Respond("refresh_build", 404) /\ UNCHANGED builds
       ELSE IF ~builds[b].provider_id        \* get_build finds no such build
       THEN Respond("refresh_build", 500) /\ UNCHANGED builds
       ELSE LET status_value == StatusValue(provider[b])
            IN  /\ Respond("refresh_build", 200)
                /\ builds' =
                     IF status_value = 3
                     THEN [builds EXCEPT ![b].status = "success"]
                     ELSE IF status_value \in {4, 5, 6, 7}
                     THEN [builds EXCEPT ![b].status = "failed",
                                         ![b].error_message = "refreshed"]
                     ELSE IF status_value \in {1, 2}
                     THEN [builds EXCEPT ![b].status = "building"]
                     ELSE builds
    /\ UNCHANGED <<users, nbOwner, nbStatus, buildJob, provider>>
    /\ UNCHANGED notBuild

(* webhooks.py 33-39 *)
status_map(status_str) ==
    CASE status_str = "SUCCESS" -> "success"
      [] status_str \in {"FAILURE", "TIMEOUT", "CANCELLED", "INTERNAL_ERROR"} -> "failed"
      [] OTHER -> "none"

(* POST /webhooks/cloud-build, webhooks.py 15-61: the build service        *)
(* reports the status its build b has                                      *)
CloudBuildWebhook(b) ==
    /\ provider[b] # "none"
    /\ LET new_status == status_map(provider[b])
       IN  IF builds[b] = NoRow \/ ~builds[b].provider_id \/ new_status = "none"
           THEN Respond("build_webhook", 200) /\ UNCHANGED builds
           ELSE /\ Respond("build_webhook", 200)
                /\ builds' = [builds EXCEPT
                       ![b].status = new_status,
                       ![b].error_message =
                           IF new_status = "failed" THEN "Build reported" ELSE @]
    /\ UNCHANGED <<users, nbOwner, nbStatus, buildJob, provider>>
    /\ UNCHANGED notBuild

\* The row with the largest id among the rows of a notebook, or NoRow
LatestOf(table, ids, n) ==
    LET mine == {i \in ids : table[i] # NoRow /\ table[i].notebook_id = n}
    IN  IF mine = {} THEN NoRow
        ELSE table[CHOOSE i \in mine : \A j \in mine : j <= i]

(* pipeline.py 425-457: the overall status and current step computed from  *)
(* the notebook, its latest Build and its latest Deployment                *)
pipeline_status(notebook_status, build, deployment) ==
    LET after_build ==
            IF build = NoRow THEN [current_step |-> "upload", status |-> "processing"]
            ELSE IF build.status = "building"
            THEN [current_step |-> "build", status |-> "processing"]
            ELSE IF build.status = "success"
            THEN [current_step |-> "deploy", status |-> "processing"]
            ELSE IF build.status = "failed"
            THEN [current_step |-> "build", status |-> "failed"]
            ELSE [current_step |-> "upload", status |-> "processing"]
    IN  IF deployment = NoRow THEN after_build
        ELSE IF deployment.status = "deploying"
        THEN [after_build EXCEPT !.current_step = "deploy"]
        ELSE IF deployment.status = "deployed"
        THEN [current_step |-> "completed", status |-> "deployed"]
        ELSE IF deployment.status = "failed"
        THEN [current_step |-> "deploy", status |-> "failed"]
        ELSE after_build

(* GET /pipeline/status/{pipeline_id}, pipeline.py 380-476 *)
GetPipelineStatus(u, n) ==
    /\ IF ~ActiveCaller(u)
       THEN Respond("pipeline_status", 400) /\ callResult' = NoResult
       ELSE IF nbOwner[n] # u
       THEN Respond("pipeline_status", 404) /\ callResult' = NoResult
       ELSE /\ Respond("pipeline_status", 200)
            /\ callResult' = Returned(
                   pipeline_status(nbStatus[n], LatestOf(builds, BuildIds, n),
                                   LatestOf(deployments, DeployIds, n)))
    /\ callArg' = <<"pipeline", n>>
    /\ UNCHANGED <<users, nbOwner, nbStatus, buildVars, deployments>>
    /\ UNCHANGED pipelineFrame

(* The first notebook is parsed, the second was just uploaded to the       *)
(* one-click pipeline                                                      *)
InitBuild ==
    /\ \E a \in BOOLEAN :
          users = [u \in Users |-> [is_active |-> (u # 1) \/ a, is_superuser |-> FALSE]]
    /\ nbOwner = [n \in NotebookIds |-> n]
    /\ nbStatus = [n \in NotebookIds |-> IF n = 1 THEN "parsed" ELSE "uploaded"]
    /\ resp = NoResp
    /\ IdleDeploy /\ IdleModels /\ IdleRate /\ IdleHook /\ IdleNote /\ IdleAdmin /\ IdleCall /\ IdleExt

NextBuild ==
    \/ \E u \in Users, n \in NotebookIds, o \in {"ok", "upload_error"} : TriggerBuild(u, n, o)
    \/ \E n \in NotebookIds, o \in {"ok", "parse_error"} : PipelineQueueBuild(n, o)
    \/ \E b \in BuildIds : BuildStart(b)
    \/ \E b \in BuildIds : BuildSubmit(b)
    \/ \E b \in BuildIds : ExecuteBuildPoll(b)
    \/ \E b \in BuildIds : ExecuteBuildHandler(b)
    \/ \E b \in BuildIds : PipelinePoll(b)
    \/ \E b \in BuildIds : PipelineCreateDeployment(b)
    \/ \E b \in BuildIds : PipelineDeploy(b)
    \/ \E u \in Users, n \in NotebookIds : GetPipelineStatus(u, n)
    \/ \E b \in BuildIds : PipelineHandler(b)
    \/ \E b \in BuildIds : ProviderStep(b)
    \/ \E u \in Users, b \in BuildIds : RefreshBuildStatus(u, b)
    \/ \E b \in BuildIds : CloudBuildWebhook(b)

SpecBuild == InitBuild /\ [][NextBuild]_vars

(* One committed change of a Build status that the lifecycle allows *)
BuildForward(a, b) ==
    \/ a = b
    \/ a = "queued" /\ b \in {"building", "failed"}
    \/ a = "building" /\ b \in {"success", "failed"}

(* C21 as stated: every committed change of a Build status moves forward   *)
(* along queued -> building -> success or failed; a Build that is success  *)
(* or failed never changes status again.                                   *)
C21_BuildStatusOnlyMovesForward ==
    [][\A b \in BuildIds :
          (builds[b] # NoRow /\ builds'[b] # NoRow)
              => BuildForward(builds[b].status, builds'[b].status)]_vars

\* One of the three rows the projection reads is in a failed status
AnyFailed(notebook_status, build, deployment) ==
    \/ notebook_status = "failed"
    \/ build.status = "failed"
    \/ deployment.status = "failed"

(* C24: in every state the pipeline can reach, the status projection of a  *)
(* notebook reports failed whenever the notebook, its latest Build or its  *)
(* latest Deployment is failed, and reports deployed only when none is     *)
C24_FailedRowReportsFailed ==
    \A n \in NotebookIds :
        LET build == LatestOf(builds, BuildIds, n)
            deployment == LatestOf(deployments, DeployIds, n)
            p == pipeline_status(nbStatus[n], build, deployment)
        IN  /\ AnyFailed(nbStatus[n], build, deployment) => p.status = "failed"
            /\ p.status = "deployed" => ~AnyFailed(nbStatus[n], build, deployment)

----------------------------------------------------------------------------
(* POST /deployments/{deployment_id}/reload-model (api/v1/deployments.py   *)
(* 334-407).  callArg is the request as the handler finds it: the row it   *)
(* selects, the active model, and what each call it makes comes back with. *)

(* What one POST to the service's admin reload endpoint comes back with:   *)
(* a response with that status code, or a requests.RequestException        *)
ReloadResponses == {"200", "401", "500", "exception"}

(* lines 388-407: the retry loop, from iteration `attempt` on; events      *)
(* lists the POSTs made and the pauses slept, in order                     *)
RECURSIVE ReloadLoop(_, _, _)
ReloadLoop(responses, attempt, events) ==
    IF attempt = 3
    THEN [code |-> 503, events |-> events]
    ELSE LET response == responses[attempt + 1]
             posted == Append(events, "post")
         IN  IF response = "200" THEN [code |-> 200, events |-> posted]
             ELSE IF response = "401" THEN [code |-> 401, events |-> posted]
             ELSE IF response = "exception"
             THEN IF attempt = 2
                  THEN [code |-> 503, events |-> posted]
                  ELSE ReloadLoop(responses, attempt + 1, Append(posted, "sleep"))
             ELSE ReloadLoop(responses, attempt + 1, posted)

(* cloud_run.update_service: returns once the service carries the new      *)
(* environment, or raises                                                  *)
update_service(request) == request.update_ok

(* lines 340-407 *)
reload_model(request) ==
    IF ~request.owned THEN [code |-> 404, events |-> << >>]
    ELSE IF ~request.service_url \/ request.status # "deployed"
    THEN [code |-> 400, events |-> << >>]
    ELSE IF ~request.active_model THEN [code |-> 404, events |-> << >>]
    ELSE IF ~request.admin_api_key THEN [code |-> 500, events |-> << >>]
    ELSE IF ~update_service(request) THEN [code |-> 500, events |-> << >>]
    ELSE ReloadLoop(request.responses, 0, << >>)

ReloadModel ==
    /\ callResult = NoResult
    /\ Respond("reload_model", reload_model(callArg).code)
    /\ callResult' = Returned(reload_model(callArg))
    /\ UNCHANGED <<users, nbOwner, nbStatus, callArg>>
    /\ UNCHANGED <<deployVars, modelVars, rateVars, hookVars, noteVars, adminVars, extVars>>

InitReload ==
    /\ users = [u \in Users |-> [is_active |-> TRUE, is_superuser |-> FALSE]]
    /\ nbOwner = [n \in NotebookIds |-> n]
    /\ nbStatus = [n \in NotebookIds |-> "deployed"]
    /\ resp = NoResp
    /\ IdleDeploy /\ IdleModels /\ IdleRate /\ IdleHook /\ IdleNote /\ IdleAdmin /\ IdleExt
    /\ callArg \in [owned : BOOLEAN, service_url : BOOLEAN,
                    status : {"deployed", "failed"}, active_model : BOOLEAN,
                    admin_api_key : BOOLEAN, update_ok : BOOLEAN,
                    responses : [1..3 -> ReloadResponses]]
    /\ callResult = NoResult

NextReload == ReloadModel

SpecReload == InitReload /\ [][NextReload]_vars

(* The number of POSTs among the events *)
Posts(events) == Cardinality({i \in 1..Len(events) : events[i] = "post"})

(* C22 as stated: at most 3 POSTs; the call ends with the first 200 or 401 *)
(* response; after a failed attempt the next POST comes only after a       *)
(* pause; three failed attempts end in 503.                                *)
C22_ReloadRetriesWithPause ==
    (resp.op = "reload_model" /\ callResult[2].events # << >>) =>
        LET events == callResult[2].events
            responses == callArg.responses
            made == Posts(events)
        IN  /\ made <= 3
            /\ \A i \in 1..(made - 1) : responses[i] \notin {"200", "401"}
            /\ responses[made] = "200" => resp.code = 200
            /\ responses[made] = "401" => resp.code = 401
            /\ responses[made] \notin {"200", "401"} => (made = 3 /\ resp.code = 503)
            /\ \A i \in 1..(Len(events) - 1) :
                  events[i] = "post" => events[i + 1] = "sleep"

(***************************************************************************)
(* Build-log streaming: the websocket endpoint stream_logs                 *)
(* (api/v1/deployments.py) and the log source it polls                     *)
(* (core/cloud_build.py fetch_build_log_entries)                           *)
(***************************************************************************)

(* max_iterations = 200 in the source; the model runs the same loop with a *)
(* small bound                                                             *)
max_iterations == 3
\* The most entries Cloud Logging holds for the build
MaxLogs == 2
\* The most steps the build record lists
MaxSteps == 1

\* The statuses after which the provider never changes the build again
ProviderTerminal == {"SUCCESS", "FAILURE", "INTERNAL_ERROR"}
\* The list the loop tests build_status against
BuildCompleteStatuses == {"SUCCESS", "FAILURE", "CANCELLED", "TIMEOUT"}
\* The deployment statuses that end the stream
DeploymentTerminal == {"deployed", "failed"}

LoggingEntry(i) == [src |-> "logging", n |-> i]
StepEntry(i) == [src |-> "steps", n |-> i]
StatusEntry == [src |-> "status", n |-> 0]
FallbackEntry == [src |-> "fallback", n |-> 0]

\* How one call of fetch_build_log_entries can go
FetchOutcomes == {"ok", "logging_error", "build_error"}

(* fetch_build_log_entries: the Cloud Logging entries in ascending order;  *)
(* when there are none, one entry per build step and a status entry; when  *)
(* the logging call raises, one entry built from the build record; when    *)
(* the build record cannot be read either, the empty list                  *)
fetch_build_log_entries(env, outcome) ==
    CASE outcome = "ok" ->
            IF env.logged > 0
            THEN [i \in 1..env.logged |-> LoggingEntry(i)]
            ELSE IF env.steps > 0
                 THEN [i \in 1..env.steps |-> StepEntry(i)] \o <<StatusEntry>>
                 ELSE <<>>
      [] outcome = "logging_error" -> <<FallbackEntry>>
      [] OTHER -> <<>>

\* The number of Cloud Logging entries in a fetched list
LoggingCount(entries) == Len(SelectSeq(entries, LAMBDA e : e.src = "logging"))

Max2(a, b) == IF a >= b THEN a ELSE b

\* log_entries[last_log_count:] when the list is longer, else nothing
NewEntries(entries, last_log_count) ==
    IF Len(entries) > last_log_count
    THEN SubSeq(entries, last_log_count + 1, Len(entries))
    ELSE <<>>

notStream == <<sharedVars, deployVars, modelVars, rateVars, hookVars, noteVars, adminVars,
               callVars, buildVars, keyVars>>

(* The code after the loop: a timeout frame when iteration >= max_iterations, *)
(* then websocket.close()                                                  *)
AfterLoop(s) ==
    [s EXCEPT !.pc = "closed",
              !.timeout = IF s.iteration >= max_iterations THEN s.timeout + 1 ELSE s.timeout]

(* The endpoint up to the loop: an error frame and close when the          *)
(* deployment or its build id is missing, else the connected frame         *)
StreamOpen(found, has_build_id) ==
    /\ stream.pc = "idle"
    /\ stream' = IF found /\ has_build_id
                 THEN [stream EXCEPT !.pc = "loop", !.connected = TRUE]
                 ELSE [stream EXCEPT !.pc = "closed"]
    /\ UNCHANGED <<streamEnv, notStream>>

(* One pass of the while loop up to its sleep or break.  status_outcome    *)
(* tells whether get_build_status raised; a raise is caught by `except     *)
(* Exception`, which sends a warning frame and sleeps                      *)
StreamPoll(status_outcome, outcome) ==
    /\ stream.pc = "loop"
    /\ stream.iteration < max_iterations
    /\ LET build_status == streamEnv.build_status
           log_entries == fetch_build_log_entries(streamEnv, outcome)
           new_entries == NewEntries(log_entries, stream.last_log_count)
           polled == [stream EXCEPT
                         !.iteration = stream.iteration + 1,
                         !.logs = stream.logs \o new_entries,
                         !.last_log_count = Max2(stream.last_log_count, Len(log_entries)),
                         !.seen = Max2(stream.seen, LoggingCount(log_entries)),
                         !.build_status = build_status]
       IN  stream' =
              IF status_outcome = "error"
              THEN [stream EXCEPT !.iteration = stream.iteration + 1]
              ELSE IF build_status \in BuildCompleteStatuses
              THEN [polled EXCEPT !.pc = "final"]
              ELSE IF streamEnv.deployment_status \in DeploymentTerminal
              THEN AfterLoop([polled EXCEPT !.complete = polled.complete + 1])
              ELSE polled
    /\ UNCHANGED <<streamEnv, notStream>>

(* After the 2-second wait of a completed build: the final fetch, the      *)
(* entries beyond last_log_count, the complete frame and break             *)
StreamFinal(outcome) ==
    /\ stream.pc = "final"
    /\ LET final_logs == fetch_build_log_entries(streamEnv, outcome)
           final_new == NewEntries(final_logs, stream.last_log_count)
       IN  stream' = AfterLoop([stream EXCEPT
                         !.logs = stream.logs \o final_new,
                         !.seen = Max2(stream.seen, LoggingCount(final_logs)),
                         !.complete = stream.complete + 1])
    /\ UNCHANGED <<streamEnv, notStream>>

\* The loop condition fails: iteration reached max_iterations
StreamLoopExit ==
    /\ stream.pc = "loop"
    /\ stream.iteration >= max_iterations
    /\ stream' = AfterLoop(stream)
    /\ UNCHANGED <<streamEnv, notStream>>

(* The client goes away: the next send raises WebSocketDisconnect, the     *)
(* loop breaks and no further frame is delivered                           *)
StreamDisconnect ==
    /\ stream.pc \in {"loop", "final"}
    /\ stream' = [stream EXCEPT !.pc = "closed", !.disconnected = TRUE]
    /\ UNCHANGED <<streamEnv, notStream>>

\* Cloud Logging receives the next entry of the build
LogAppend ==
    /\ stream.pc # "closed"
    /\ streamEnv.logged < MaxLogs
    /\ streamEnv' = [streamEnv EXCEPT !.logged = streamEnv.logged + 1]
    /\ UNCHANGED <<stream, notStream>>

\* The provider ends the build
BuildFinish(status) ==
    /\ stream.pc # "closed"
    /\ streamEnv.build_status = "WORKING"
    /\ streamEnv' = [streamEnv EXCEPT !.build_status = status]
    /\ UNCHANGED <<stream, notStream>>

\* The deployment job writes the deployment's final status
DeploymentFinish(status) ==
    /\ stream.pc # "closed"
    /\ streamEnv.deployment_status = "deploying"
    /\ streamEnv' = [streamEnv EXCEPT !.deployment_status = status]
    /\ UNCHANGED <<stream, notStream>>

InitStream ==
    /\ users = [u \in Users |-> [is_active |-> TRUE, is_superuser |-> FALSE]]
    /\ nbOwner = [n \in NotebookIds |-> NoUser]
    /\ nbStatus = [n \in NotebookIds |-> "absent"]
    /\ resp = NoResp
    /\ IdleDeploy /\ IdleModels /\ IdleRate /\ IdleHook /\ IdleNote /\ IdleAdmin /\ IdleCall
    /\ IdleBuild /\ IdleKeys
    /\ stream = NoStream
    /\ streamEnv \in [logged : {0}, steps : 0..MaxSteps, build_status : {"WORKING"},
                      deployment_status : {"deploying"}]

NextStream ==
    \/ \E found \in BOOLEAN, has_build_id \in BOOLEAN : StreamOpen(found, has_build_id)
    \/ \E status_outcome \in {"ok", "error"}, outcome \in FetchOutcomes :
          StreamPoll(status_outcome, outcome)
    \/ \E outcome \in FetchOutcomes : StreamFinal(outcome)
    \/ StreamLoopExit
    \/ StreamDisconnect
    \/ LogAppend
    \/ \E status \in ProviderTerminal : BuildFinish(status)
    \/ \E status \in DeploymentTerminal : DeploymentFinish(status)

SpecStream == InitStream /\ [][NextStream]_vars

\* A stream that entered the loop and closed without a client disconnect
StreamEnded == stream.pc = "closed" /\ stream.connected /\ ~stream.disconnected

(* C23: the loop makes at most max_iterations passes, and a stream that    *)
(* is not ended by a client disconnect has sent exactly one of the         *)
(* complete frame and the timeout frame when it closes; the timeout frame  *)
(* is sent only when no complete frame was                                 *)
C23_StreamEndsWithCompleteOrTimeout ==
    /\ stream.iteration <= max_iterations
    /\ StreamEnded => stream.complete + stream.timeout = 1

\* The Cloud Logging entries among the frames sent, in the order sent
ForwardedLogging == SelectSeq(stream.logs, LAMBDA e : e.src = "logging")

(* C30: after every step of a stream, the Cloud Logging entries forwarded  *)
(* so far are exactly the entries the log source has returned so far, each *)
(* once and in order                                                       *)
C30_EveryLogEntryForwardedOnce ==
    (stream.connected /\ ~stream.disconnected) =>
        /\ Len(ForwardedLogging) = stream.seen
        /\ \A i \in 1..Len(ForwardedLogging) : ForwardedLogging[i].n = i

----------------------------------------------------------------------------
(* Archetype selection: the one-click pipeline's inline choice             *)
(* (api/v1/pipeline.py 172-251) against DockerfileGenerator                *)
(* (core/dockerfile_generator.py).  callArg is the dependency list the     *)
(* parse produced, in lower case, and what the generated program holds.    *)

\* The longest dependency list tried
MaxDeps == 3

\* The libraries a dependency list is drawn from
Libraries == {"streamlit", "fastapi", "flask", "pandas"}

RECURSIVE ListsUpTo(_)
ListsUpTo(k) ==
    IF k = 0 THEN {<< >>}
    ELSE LET shorter == ListsUpTo(k - 1)
         IN  shorter \cup {Append(l, x) : l \in {y \in shorter : Len(y) = k - 1},
                                          x \in Libraries}

(* The CMD line of the template DockerfileGenerator.generate picks for an  *)
(* app type (dockerfile_generator.py 34, 54, 74, 94)                       *)
template_cmd(app_type) ==
    CASE app_type = "streamlit" -> <<"streamlit", "run", "main.py">>
      [] app_type = "fastapi" -> <<"uvicorn", "app:app">>
      [] app_type = "flask" -> <<"gunicorn", "main:app">>
      [] OTHER -> <<"python", "main.py">>

(* pipeline.py 173-246: the archetype the pipeline's if / elif / else      *)
(* takes and the CMD line it appends to the Dockerfile                     *)
pipeline_app_type(dependencies) ==
    IF InList("fastapi", dependencies)
    THEN [app_type |-> "fastapi", cmd |-> <<"python", "main.py">>]
    ELSE IF InList("flask", dependencies)
    THEN [app_type |-> "flask", cmd |-> <<"python", "main.py">>]
    ELSE [app_type |-> "streamlit", cmd |-> <<"streamlit", "run", "main.py">>]

(* Both selections made for the dependency list of callArg *)
SelectArchetype ==
    /\ callResult = NoResult
    /\ callResult' = Returned(
           [pipeline |-> pipeline_app_type(callArg),
            generator |-> [app_type |-> detect_app_type(callArg),
                           cmd |-> template_cmd(detect_app_type(callArg))]])
    /\ UNCHANGED <<sharedVars, callArg>>
    /\ UNCHANGED <<deployVars, modelVars, rateVars, hookVars, noteVars, adminVars, extVars>>

InitArchetype ==
    /\ users = [u \in Users |-> [is_active |-> TRUE, is_superuser |-> FALSE]]
    /\ nbOwner = [n \in NotebookIds |-> n]
    /\ nbStatus = [n \in NotebookIds |-> "uploaded"]
    /\ resp = NoResp
    /\ IdleDeploy /\ IdleModels /\ IdleRate /\ IdleHook /\ IdleNote /\ IdleAdmin /\ IdleExt
    /\ callArg \in ListsUpTo(MaxDeps)
    /\ callResult = NoResult

NextArchetype == SelectArchetype

SpecArchetype == InitArchetype /\ [][NextArchetype]_vars

(* C26: for every dependency list the pipeline selects the archetype and   *)
(* the start command that detect_app_type and its template select          *)
C26_PipelineSelectsGeneratorArchetype ==
    callResult # NoResult => callResult[2].pipeline = callResult[2].generator

----------------------------------------------------------------------------
(* API-key authentication: verify_api_key (utils/deps.py 70-99)            *)

\* The X-API-Key header is absent
NoKey == "absent"

\* An APIKey row whose owning user has been deleted has this user id
MissingUser == 3

\* last_used_at of a key that was never used (the column is nullable)
NeverUsed == << >>

(* The rows the api_keys table can hold for one key: none, or a key of an  *)
(* existing or a deleted user, active or not, never used                   *)
KeyRows ==
    {NoRow} \cup [status : {"present"}, user_id : {1, MissingUser},
                  is_active : BOOLEAN, last_used_at : {NeverUsed}]

(* verify_api_key, lines 70-99 *)
VerifyApiKey(x_api_key) ==
    /\ IF x_api_key = NoKey
       THEN Respond("verify_api_key", 401) /\ UNCHANGED apiKeys
       ELSE LET api_key == apiKeys[x_api_key]
            IN  IF api_key = NoRow \/ ~api_key.is_active
                THEN Respond("verify_api_key", 401) /\ UNCHANGED apiKeys
                ELSE /\ apiKeys' = [apiKeys EXCEPT ![x_api_key].last_used_at = <<now>>]
                     /\ IF api_key.user_id \notin DOMAIN users
                           \/ ~users[api_key.user_id].is_active
                        THEN Respond("verify_api_key", 401)
                        ELSE Respond("verify_api_key", 200)
    /\ UNCHANGED <<users, nbOwner, nbStatus>>
    /\ UNCHANGED <<deployVars, modelVars, rateVars, hookVars, noteVars, adminVars, callVars,
                   buildVars, streamVars>>

InitKeys ==
    /\ \E a \in BOOLEAN :
          users = [u \in Users |-> [is_active |-> (u # 1) \/ a, is_superuser |-> FALSE]]
    /\ nbOwner = [n \in NotebookIds |-> n]
    /\ nbStatus = [n \in NotebookIds |-> "uploaded"]
    /\ resp = NoResp
    /\ IdleDeploy /\ IdleModels /\ IdleRate /\ IdleHook /\ IdleNote /\ IdleAdmin /\ IdleCall
    /\ IdleBuild /\ IdleStream
    /\ apiKeys \in [KeyStrings -> KeyRows]

NextKeys ==
    \/ \E x_api_key \in KeyStrings \cup {NoKey} : VerifyApiKey(x_api_key)
    \/ \E step \in ClockSteps : Tick(step)

SpecKeys == InitKeys /\ [][NextKeys]_vars

(* C28: an API-key authentication attempt that is rejected leaves every    *)
(* APIKey row, last_used_at included, as it was                            *)
C28_RejectedAttemptLeavesKeysUnchanged ==
    [][\A x_api_key \in KeyStrings \cup {NoKey} :
          (VerifyApiKey(x_api_key) /\ resp'.code = 401) => apiKeys' = apiKeys]_vars

====
